---- MODULE Spec2Model ----
(***************************************************************************)
(* GLauncher server: the archive ingestion pipeline of server/routes.ts    *)
(* (upload, ZIP extraction, entry-point classification), the record store  *)
(* of server/storage.ts and the delete / clear-all handlers.               *)
(*                                                                         *)
(* JavaScript strings are TLA+ strings; Len, SubSeq, Head, Tail and \o     *)
(* act on them character by character.                                     *)
(***************************************************************************)
EXTENDS Integers, Sequences, FiniteSets, TLC

(***************************************************************************)
(* Bounds of the model.                                                    *)
(***************************************************************************)
\* requests the server receives in one behaviour
MaxReq == 3
\* uploads the server receives in one behaviour
MaxUploads == 1
\* entries of an archive in SpecIngest
MaxEntries == 2

(***************************************************************************)
(* String helpers: the String.prototype and path functions the code uses.  *)
(***************************************************************************)
LowerChar(c) ==
  CASE c = "A" -> "a" [] c = "B" -> "b" [] c = "C" -> "c" [] c = "D" -> "d"
    [] c = "E" -> "e" [] c = "F" -> "f" [] c = "G" -> "g" [] c = "H" -> "h"
    [] c = "I" -> "i" [] c = "J" -> "j" [] c = "K" -> "k" [] c = "L" -> "l"
    [] c = "M" -> "m" [] c = "N" -> "n" [] c = "O" -> "o" [] c = "P" -> "p"
    [] c = "Q" -> "q" [] c = "R" -> "r" [] c = "S" -> "s" [] c = "T" -> "t"
    [] c = "U" -> "u" [] c = "V" -> "v" [] c = "W" -> "w" [] c = "X" -> "x"
    [] c = "Y" -> "y" [] c = "Z" -> "z" [] OTHER -> c

RECURSIVE ToLowerCase(_)
ToLowerCase(s) ==
  IF s = "" THEN "" ELSE LowerChar(Head(s)) \o ToLowerCase(Tail(s))

EndsWith(s, suf) ==
  /\ Len(s) >= Len(suf)
  /\ SubSeq(s, Len(s) - Len(suf) + 1, Len(s)) = suf

StartsWith(s, pre) ==
  /\ Len(s) >= Len(pre)
  /\ SubSeq(s, 1, Len(pre)) = pre

Includes(s, sub) ==
  \E i \in 1..(Len(s) - Len(sub) + 1) : SubSeq(s, i, i + Len(sub) - 1) = sub

\* positions of "/" in s
SlashAt(s) == {i \in 1..Len(s) : SubSeq(s, i, i) = "/"}

Max(S) == CHOOSE m \in S : \A n \in S : n <= m

\* f.split('/').pop() || ''
LastSegment(f) ==
  IF SlashAt(f) = {} THEN f ELSE SubSeq(f, Max(SlashAt(f)) + 1, Len(f))

\* path.dirname of a path that holds a "/"
Dirname(p) ==
  IF SlashAt(p) = {} THEN "." ELSE SubSeq(p, 1, Max(SlashAt(p)) - 1)

Min(S) == CHOOSE m \in S : \A n \in S : m <= n

\* s.split('/')
RECURSIVE SplitSlash(_)
SplitSlash(s) ==
  IF SlashAt(s) = {} THEN <<s>>
  ELSE LET i == Min(SlashAt(s))
       IN  <<SubSeq(s, 1, i - 1)>> \o SplitSlash(SubSeq(s, i + 1, Len(s)))

\* the segments of a relative path after "", "." and ".." are resolved; a
\* ".." that has nothing to remove is kept
RECURSIVE ResolveSegments(_, _)
ResolveSegments(segs, done) ==
  IF segs = << >> THEN done
  ELSE LET seg == Head(segs)
           n == Len(done)
       IN  IF seg = "" \/ seg = "." THEN ResolveSegments(Tail(segs), done)
           ELSE IF seg = ".." /\ n > 0 /\ done[n] # ".."
                THEN ResolveSegments(Tail(segs), SubSeq(done, 1, n - 1))
           ELSE ResolveSegments(Tail(segs), Append(done, seg))

RECURSIVE JoinSlash(_)
JoinSlash(segs) ==
  IF segs = << >> THEN ""
  ELSE IF Len(segs) = 1 THEN segs[1]
  ELSE segs[1] \o "/" \o JoinSlash(Tail(segs))

\* path.normalize of a relative path; a trailing separator is kept
Normalize(p) ==
  LET body == JoinSlash(ResolveSegments(SplitSlash(p), << >>))
  IN  IF body = "" THEN "."
      ELSE IF EndsWith(p, "/") THEN body \o "/" ELSE body

\* path.join(dir, name): the parts joined by "/" and normalized
PathJoin(dir, name) == Normalize(dir \o "/" \o name)

\* the directories fs.mkdirSync(dir, {recursive: true}) makes sure exist
DirChain(dir) ==
  {dir} \cup {SubSeq(dir, 1, i - 1) : i \in {j \in SlashAt(dir) : j > 1}}

\* p is dir itself or lies below it
Under(dir, p) == p = dir \/ StartsWith(p, dir \o "/")

(***************************************************************************)
(* extractZipAndAnalyzeContents: the per-entry partition and the "end"     *)
(* handler, i.e. the entry-point classifier.                               *)
(***************************************************************************)
\* yauzl (opened with its default options at line 68) hands an entry to the
\* "entry" handler only after it has turned "\\" into "/" in entry.fileName
\* and checked the name; a name that fails the check is reported through the
\* "error" event instead
RECURSIVE ReplaceBackslash(_)
ReplaceBackslash(s) ==
  IF s = "" THEN ""
  ELSE (IF Head(s) = "\\" THEN "/" ELSE Head(s)) \o ReplaceBackslash(Tail(s))

Letters == "abcdefghijklmnopqrstuvwxyz"

\* the error message for the name, "" for a name that passes
validateFileName_none(fileName) == ""

validateFileName(fileName) ==
  IF Includes(fileName, "\\") THEN "invalid characters in fileName: " \o fileName
  ELSE IF \/ StartsWith(fileName, "/")
          \/ /\ Len(fileName) >= 2
             /\ SubSeq(fileName, 2, 2) = ":"
             /\ Includes(Letters, ToLowerCase(SubSeq(fileName, 1, 1)))
       THEN "absolute path: " \o fileName
  ELSE IF \E i \in 1..Len(SplitSlash(fileName)) : SplitSlash(fileName)[i] = ".."
       THEN "invalid relative path: " \o fileName
  ELSE ""

\* the next entry as yauzl reports it
EntryFileName(raw) == ReplaceBackslash(raw)

EntryError(raw) == validateFileName(EntryFileName(raw))

IsDirEntry(fileName) == EndsWith(fileName, "/")

IsHtmlName_htmlOnly(fileName) == EndsWith(ToLowerCase(fileName), ".html")

IsHtmlName(fileName) ==
  \/ EndsWith(ToLowerCase(fileName), ".html")
  \/ EndsWith(ToLowerCase(fileName), ".htm")

IsJarName(fileName) == EndsWith(ToLowerCase(fileName), ".jar")

\* the names behind priorityPatterns, /^K\.html?$/i in this order
priorityPatterns ==
  <<"index", "main", "game", "client", "eaglercraft", "launcher", "start", "play">>

keywordPatterns ==
  <<"index", "main", "game", "client", "eaglercraft", "launcher">>

\* pattern.test(fileName) for /^K\.html?$/i
PatternTest(k, fileName) ==
  ToLowerCase(fileName) \in {k \o ".htm", k \o ".html"}

\* Array.prototype.find: the first element the callback accepts, "" when
\* none (the code turns undefined into null; both are falsy like ""); hits
\* are the indices of the accepted elements
FindFirst(seq, hits) ==
  IF hits = {} THEN "" ELSE seq[CHOOSE i \in hits : \A j \in hits : i <= j]

RootExact_anyDepth(k, f) == PatternTest(k, LastSegment(f))

RootExact(k, f) == PatternTest(k, LastSegment(f)) /\ ~Includes(f, "/")

KeywordHit(k, f) ==
  /\ Includes(ToLowerCase(LastSegment(f)), k)
  /\ EndsWith(ToLowerCase(LastSegment(f)), ".html")

\* first loop: for (const pattern of priorityPatterns) { find; if found break }
RECURSIVE ExactLoop(_, _)
ExactLoop(htmlFiles, i) ==
  IF i > Len(priorityPatterns) THEN ""
  ELSE LET k == priorityPatterns[i]
           hit == FindFirst(htmlFiles,
                            {j \in 1..Len(htmlFiles) : RootExact(k, htmlFiles[j])})
       IN  IF hit # "" THEN hit ELSE ExactLoop(htmlFiles, i + 1)

\* second loop: for (const keyword of keywordPatterns) { find; if found break }
RECURSIVE KeywordLoop(_, _)
KeywordLoop(htmlFiles, i) ==
  IF i > Len(keywordPatterns) THEN ""
  ELSE LET k == keywordPatterns[i]
           hit == FindFirst(htmlFiles,
                            {j \in 1..Len(htmlFiles) : KeywordHit(k, htmlFiles[j])})
       IN  IF hit # "" THEN hit ELSE KeywordLoop(htmlFiles, i + 1)

IsRoot(f) == ~Includes(f, "/")

\* htmlFiles.find(f => !f.includes('/')) || htmlFiles[0] || null
FallbackSelect(htmlFiles) ==
  LET root == FindFirst(htmlFiles, {j \in 1..Len(htmlFiles) : IsRoot(htmlFiles[j])})
  IN  IF root # "" THEN root
      ELSE IF Len(htmlFiles) > 0 THEN htmlFiles[1] ELSE ""

\* the selection of mainHtml, lines 153-177
SelectMainHtml(htmlFiles) ==
  LET exact == ExactLoop(htmlFiles, 1)
      kw == IF exact # "" THEN exact ELSE KeywordLoop(htmlFiles, 1)
  IN  IF kw # "" THEN kw ELSE FallbackSelect(htmlFiles)

\* mainFile === htmlFiles[0] ? 'fallback' : 'pattern-match'
\* (mainFile is the joined output path, htmlFiles[0] an entry name)
detectionMethod(mainFile, htmlFiles) ==
  IF mainFile = htmlFiles[1] THEN "fallback" ELSE "pattern-match"

ErrConfigOnly ==
  "ZIP contains configuration files but no executable client files (HTML or JAR)"
ErrNoSupported == "No supported files (HTML or JAR) found in ZIP archive"
ErrTimeout == "ZIP extraction timed out after 30 seconds"
ErrOpen == "end of central directory record signature not found"
ErrEntry == "unsupported compression method"
ErrExtractPrefix == "Failed to extract ZIP file: "
ErrCorrupt == ErrExtractPrefix \o "invalid central directory file header signature"

NoResult ==
  [ok |-> FALSE, error |-> "", type |-> "", htmlPath |-> "", mainHtml |-> "",
   originalName |-> "", detectionMethod |-> "", extractedFiles |-> 0,
   warnings |-> << >>]

\* lines 199-246: the warnings of a resolved result; mainHtml is "" for null
StructureWarnings(htmlFiles, mainHtml, allFiles) ==
  LET lower == {ToLowerCase(allFiles[i]) : i \in 1..Len(allFiles)}
      hasAssets ==
        \E f \in lower :
          \E e \in {".js", ".css", ".png", ".jpg", ".gif", ".ico"} : Includes(f, e)
      hasEaglerAssets ==
        \E f \in lower :
          \E e \in {"eagler", "classes.js", "assets/minecraft"} : Includes(f, e)
      nestedLevel == Max({Len(SplitSlash(allFiles[i])) - 1 : i \in 1..Len(allFiles)})
      many == IF Len(htmlFiles) > 5
              THEN <<"Found " \o ToString(Len(htmlFiles))
                       \o " HTML files - may indicate complex structure">>
              ELSE << >>
      sub == IF Includes(mainHtml, "/")
             THEN <<"Main HTML file found in subdirectory - may affect relative paths">>
             ELSE << >>
      assets == IF ~hasAssets
                THEN <<"No common asset files detected - game may not function properly">>
                ELSE << >>
      eagler == IF hasEaglerAssets
                THEN <<"Eaglercraft client detected - optimized loading enabled">>
                ELSE << >>
      deep == IF nestedLevel > 3
              THEN <<"Deep directory structure (" \o ToString(nestedLevel)
                       \o " levels) - may cause loading issues">>
              ELSE << >>
  IN  eagler \o many \o sub \o assets \o deep

\* zipfile.on("end"): a rejection [ok |-> FALSE, error] or the resolved result
EndHandler(htmlFiles, jarFiles, allFiles, extractDir, zipPath) ==
  IF Len(htmlFiles) > 0 THEN
    LET mainHtml == SelectMainHtml(htmlFiles)
        mainFile == PathJoin(extractDir, mainHtml)
    IN  [NoResult EXCEPT !.ok = TRUE, !.type = "html", !.htmlPath = mainFile,
                         !.mainHtml = mainHtml,
                         !.originalName = LastSegment(mainHtml),
                         !.detectionMethod = detectionMethod(mainFile, htmlFiles),
                         !.extractedFiles = Len(allFiles),
                         !.warnings = StructureWarnings(htmlFiles, mainHtml, allFiles)]
  ELSE IF Len(jarFiles) > 0 THEN
    [NoResult EXCEPT !.ok = TRUE, !.type = "jar",
                     !.originalName = LastSegment(zipPath),
                     !.detectionMethod = "jar-detected",
                     !.extractedFiles = Len(allFiles),
                     !.warnings = StructureWarnings(htmlFiles, "", allFiles)]
  ELSE
    LET IsJson(f) == EndsWith(ToLowerCase(f), ".json")
    IN  IF \E i \in 1..Len(allFiles) : IsJson(allFiles[i])
        THEN [NoResult EXCEPT !.error = ErrConfigOnly]
        ELSE [NoResult EXCEPT !.error = ErrNoSupported]

(***************************************************************************)
(* validateZipFile (the module routes.ts imports as ./zip-validator).      *)
(* A file is known by its size in bytes, the hex of its first four bytes   *)
(* and whether it can be read.                                             *)
(***************************************************************************)
validSignatures == {"504b0304", "504b0506", "504b0708"}

\* lines 243-255: a name that ends like an executable, holds a character of
\* <>:"|?* or starts with a dot
SuspiciousName(fileName) ==
  LET low == ToLowerCase(fileName)
  IN  \/ \E x \in {".exe", ".bat", ".cmd", ".scr", ".vbs", ".js", ".jar"} : EndsWith(low, x)
      \/ \E c \in {"<", ">", ":", "\"", "|", "?", "*"} : Includes(fileName, c)
      \/ StartsWith(fileName, ".")

NoValidation == [isValid |-> TRUE, errors |-> << >>, warnings |-> << >>]

\* file: what is stored at zipPath
validateZipFile(zipPath, file) ==
  IF ~file.readable
  THEN [NoValidation EXCEPT !.isValid = FALSE,
                            !.errors = <<"Failed to validate ZIP file">>]
  ELSE LET e1 == IF file.size > 50 * 1024 * 1024
                 THEN <<"File size exceeds maximum allowed size of 50MB">>
                 ELSE << >>
           e2 == IF file.size < 100
                 THEN <<"File appears to be too small to be a valid ZIP archive">>
                 ELSE << >>
           e3 == IF file.sig \notin validSignatures
                 THEN <<"File does not appear to be a valid ZIP archive">>
                 ELSE << >>
           fileName == LastSegment(zipPath)
       IN  [isValid |-> (e1 \o e2 \o e3) = << >>, errors |-> e1 \o e2 \o e3,
            warnings |-> IF SuspiciousName(fileName)
                         THEN <<"Suspicious file name pattern detected: " \o fileName>>
                         ELSE << >>]

(***************************************************************************)
(* detectClientVersion. The content of a file is a sequence of chunks: a   *)
(* chunk is text, or InvalidByte, bytes that are not valid UTF-8.          *)
(* fs.promises.readFile(path, 'utf-8') throws for a directory, a missing   *)
(* path or an I/O error; it does not throw for bytes that are not UTF-8:   *)
(* each is decoded as the replacement character U+FFFD.                    *)
(* The regular expressions are matched as JavaScript matches them: the     *)
(* leftmost match of the first pattern that matches, each part greedy.     *)
(***************************************************************************)
WarnNoAnalysis == "Could not analyze client file for version information"

NoDetection ==
  [clientVersion |-> "", minecraftVersion |-> "", clientType |-> "",
   compatibilityWarnings |-> << >>]

InvalidByte == "<FF>"

\* stands for U+FFFD
ReplacementChar == "?"

RECURSIVE Utf8Decode(_)
Utf8Decode(bytes) ==
  IF bytes = << >> THEN ""
  ELSE (IF Head(bytes) = InvalidByte THEN ReplacementChar ELSE Head(bytes))
       \o Utf8Decode(Tail(bytes))

\* the character of s at i, "" outside s
At(s, i) == IF i >= 1 /\ i <= Len(s) THEN SubSeq(s, i, i) ELSE ""

DigitChars == {"0", "1", "2", "3", "4", "5", "6", "7", "8", "9"}

LineTerminators == {"\n", "\r"}

\* lit, in lower case, is at i of s whatever the case (flag i)
LitAt(s, i, lit) ==
  /\ i >= 1 /\ i + Len(lit) - 1 <= Len(s)
  /\ ToLowerCase(SubSeq(s, i, i + Len(lit) - 1)) = lit

\* the index after the longest run of characters of class from i
RECURSIVE RunEnd(_, _, _)
RunEnd(s, i, class) == IF At(s, i) \in class THEN RunEnd(s, i + 1, class) ELSE i

\* [_\s]*
SepsEnd(s, i) == RunEnd(s, i, {"_", " ", "\t", "\n", "\r"})

\* \s*
SpacesEnd(s, i) == RunEnd(s, i, {" ", "\t", "\n", "\r"})

\* (?:\.[0-9]+)*
RECURSIVE DottedEnd(_, _)
DottedEnd(s, i) ==
  IF At(s, i) = "." /\ At(s, i + 1) \in DigitChars
  THEN DottedEnd(s, RunEnd(s, i + 1, DigitChars))
  ELSE i

\* [0-9]+(?:\.[0-9]+)* from i: the index after it, i when there is no match
NumberEnd(s, i) ==
  IF At(s, i) \in DigitChars THEN DottedEnd(s, RunEnd(s, i, DigitChars)) ELSE i

\* [0-9]+(?:\.[0-9]+)*(?:[a-z]+[0-9]*)? from i
SuffixedNumberEnd(s, i) ==
  LET e == NumberEnd(s, i)
      l == RunEnd(s, e, {At(Letters, k) : k \in 1..Len(Letters)}
                        \cup {At("ABCDEFGHIJKLMNOPQRSTUVWXYZ", k) : k \in 1..26})
  IN  IF e = i THEN i ELSE IF l > e THEN RunEnd(s, l, DigitChars) ELSE e

\* (?:version|v) at i: the index after it, 0 when there is no match that a
\* number or separator can follow
VersionWordEnd(s, i) ==
  IF LitAt(s, i, "version") THEN i + 7 ELSE IF LitAt(s, i, "v") THEN i + 1 ELSE 0

\* the group captured by client version pattern k (lines 20-25) matched at i,
\* "" when it does not match there
VersionPatternAt(k, s, i) ==
  CASE k = 1 ->
         IF ~LitAt(s, i, "eaglercraft") THEN ""
         ELSE LET w == VersionWordEnd(s, SepsEnd(s, i + 11))
                  n == SepsEnd(s, w)
              IN  IF w = 0 THEN "" ELSE SubSeq(s, n, SuffixedNumberEnd(s, n) - 1)
    [] k = 2 ->
         IF ~LitAt(s, i, "eagler") THEN ""
         ELSE LET n == SepsEnd(s, i + 6)
              IN  SubSeq(s, n, SuffixedNumberEnd(s, n) - 1)
    [] k = 3 ->
         IF ~LitAt(s, i, "version") THEN ""
         ELSE LET c == SepsEnd(s, i + 7)
                  d == SepsEnd(s, IF At(s, c) = ":" THEN c + 1 ELSE c)
                  n == IF At(s, d) \in {"\"", "'"} THEN d + 1 ELSE d
              IN  SubSeq(s, n, SuffixedNumberEnd(s, n) - 1)
    [] OTHER ->
         IF ~LitAt(s, i, "eagle") THEN ""
         ELSE LET n == SepsEnd(s, i + 5)
              IN  SubSeq(s, n, NumberEnd(s, n) - 1)

\* the group captured by Minecraft version pattern k (lines 28-32) at i
McPatternAt(k, s, i) ==
  CASE k = 1 ->
         IF ~LitAt(s, i, "minecraft") THEN ""
         ELSE LET w == VersionWordEnd(s, SepsEnd(s, i + 9))
                  n == SepsEnd(s, w)
              IN  IF w = 0 THEN "" ELSE SubSeq(s, n, NumberEnd(s, n) - 1)
    [] k = 2 ->
         IF ~LitAt(s, i, "mc") THEN ""
         ELSE LET n == SepsEnd(s, i + 2)
              IN  SubSeq(s, n, NumberEnd(s, n) - 1)
    [] OTHER ->
         IF ~LitAt(s, i, "\"version\":") THEN ""
         ELSE LET q == SpacesEnd(s, i + 10)
                  e == NumberEnd(s, q + 1)
              IN  IF At(s, q) = "\"" /\ e > q + 1 /\ At(s, e) = "\""
                  THEN SubSeq(s, q + 1, e - 1)
                  ELSE ""

\* htmlContent.match(pattern)[1] for the leftmost match, "" without a match
RECURSIVE VersionMatch(_, _, _)
VersionMatch(k, s, i) ==
  IF i > Len(s) THEN ""
  ELSE IF VersionPatternAt(k, s, i) # "" THEN VersionPatternAt(k, s, i)
  ELSE VersionMatch(k, s, i + 1)

RECURSIVE McMatch(_, _, _)
McMatch(k, s, i) ==
  IF i > Len(s) THEN ""
  ELSE IF McPatternAt(k, s, i) # "" THEN McPatternAt(k, s, i)
  ELSE McMatch(k, s, i + 1)

\* lines 48-54: the first pattern with a match gives the client version
DetectVersion(htmlContent) ==
  LET hits == {k \in 1..4 : VersionMatch(k, htmlContent, 1) # ""}
  IN  IF hits = {} THEN "" ELSE VersionMatch(Min(hits), htmlContent, 1)

\* lines 56-62
DetectMcVersion(htmlContent) ==
  LET hits == {k \in 1..3 : McMatch(k, htmlContent, 1) # ""}
  IN  IF hits = {} THEN "" ELSE McMatch(Min(hits), htmlContent, 1)

\* /a.*b/i on lower-case s: b after a on the same line
FollowedBy(s, a, b) ==
  \E i \in 1..Len(s) : \E j \in 1..Len(s) :
    /\ i + Len(a) - 1 <= Len(s)
    /\ SubSeq(s, i, i + Len(a) - 1) = a
    /\ j >= i + Len(a) /\ j + Len(b) - 1 <= Len(s)
    /\ SubSeq(s, j, j + Len(b) - 1) = b
    /\ \A k \in (i + Len(a))..(j - 1) : At(s, k) \notin LineTerminators

\* lines 35-45 and 64-69: the first client type pattern that matches
DetectClientType(htmlContent) ==
  LET low == ToLowerCase(htmlContent)
  IN  IF FollowedBy(low, "eaglercraft", "1.5") THEN "Eaglercraft 1.5.2"
      ELSE IF FollowedBy(low, "eaglercraft", "1.8") THEN "Eaglercraft 1.8.8"
      ELSE IF FollowedBy(low, "eaglercraft", "1.12") THEN "Eaglercraft 1.12.2"
      ELSE IF FollowedBy(low, "eaglercraft", "beta") THEN "Eaglercraft Beta"
      ELSE IF FollowedBy(low, "eaglercraft", "alpha") THEN "Eaglercraft Alpha"
      ELSE IF Includes(low, "eaglerx") THEN "EaglerX"
      ELSE IF Includes(low, "resent") THEN "Resent Client"
      ELSE IF Includes(low, "precision") THEN "Precision Client"
      ELSE IF Includes(low, "ayunami") THEN "Ayunami Client"
      ELSE ""

DigitValue(c) ==
  CASE c = "0" -> 0 [] c = "1" -> 1 [] c = "2" -> 2 [] c = "3" -> 3 [] c = "4" -> 4
    [] c = "5" -> 5 [] c = "6" -> 6 [] c = "7" -> 7 [] c = "8" -> 8 [] OTHER -> 9

\* the number a string of digits writes
RECURSIVE ToNat(_)
ToNat(digits) ==
  IF digits = "" THEN 0
  ELSE 10 * ToNat(SubSeq(digits, 1, Len(digits) - 1)) + DigitValue(At(digits, Len(digits)))

\* parseFloat of a dotted version: the longest prefix that is a decimal
\* numeral, that is the digits before the first dot and those between the
\* first and the second; the value is whole + 0.frac
parseFloat(version) ==
  LET w == RunEnd(version, 1, DigitChars)
      f == IF At(version, w) = "." THEN RunEnd(version, w + 1, DigitChars) ELSE w + 1
  IN  [whole |-> ToNat(SubSeq(version, 1, w - 1)), frac |-> SubSeq(version, w + 1, f - 1)]

\* x < 1.5 for a value of parseFloat
BelowOnePointFive(x) ==
  \/ x.whole < 1
  \/ x.whole = 1 /\ At(x.frac, 1) \in {"", "0", "1", "2", "3", "4"}

\* htmlContent.match(/<script[^>]*>/gi): the number of matches from i on, each
\* match running to the first ">" after its "<script"
RECURSIVE ScriptTags(_, _)
ScriptTags(s, i) ==
  LET opens == {j \in i..Len(s) : LitAt(s, j, "<script")}
      open == Min(opens)
      closes == {j \in (open + 7)..Len(s) : At(s, j) = ">"}
  IN  IF opens = {} THEN 0
      ELSE IF closes = {} THEN 0
      ELSE 1 + ScriptTags(s, Min(closes) + 1)

\* the warnings of lines 95-137
Warn ==
  [legacy |-> "This client uses a very old Minecraft version and may have limited compatibility",
   graphics |-> "This client may require WebGL support - ensure your browser supports WebGL",
   storage |-> "This client uses browser storage - data may persist between sessions",
   media |-> "This client may request camera/microphone permissions",
   fullscreen |-> "This client supports fullscreen mode - use F11 or the fullscreen button",
   beta |-> "Beta client - may contain bugs or incomplete features",
   alpha |-> "Alpha client - experimental version with potential stability issues",
   resent |-> "Resent client detected - includes additional mods and features",
   precision |-> "Precision client detected - optimized for PvP gameplay",
   large |-> "Large client detected - may take longer to load"]

\* lines 88-141
generateCompatibilityWarnings(htmlContent, detection) ==
  LET type == ToLowerCase(detection.clientType)
      When(c, w) == IF c THEN <<w>> ELSE << >>
  IN  When(/\ detection.minecraftVersion # ""
           /\ BelowOnePointFive(parseFloat(detection.minecraftVersion)),
           Warn.legacy)
      \o When(Includes(htmlContent, "WebGL") /\ ~Includes(htmlContent, "webgl2"),
           Warn.graphics)
      \o When(Includes(htmlContent, "localStorage") \/ Includes(htmlContent, "sessionStorage"),
           Warn.storage)
      \o When(Includes(htmlContent, "navigator.mediaDevices") \/ Includes(htmlContent, "getUserMedia"),
           Warn.media)
      \o When(Includes(htmlContent, "fullscreen") \/ Includes(htmlContent, "requestFullscreen"),
           Warn.fullscreen)
      \o When(Includes(type, "beta"),
           Warn.beta)
      \o When(Includes(type, "alpha"),
           Warn.alpha)
      \o When(Includes(type, "resent"),
           Warn.resent)
      \o When(Includes(type, "precision"),
           Warn.precision)
      \o When(ScriptTags(htmlContent, 1) > 10,
           Warn.large)

\* lines 15-79: the analysis of the decoded text
AnalyseContent(htmlContent) ==
  LET typed == [NoDetection EXCEPT !.clientVersion = DetectVersion(htmlContent),
                                   !.minecraftVersion = DetectMcVersion(htmlContent),
                                   !.clientType = DetectClientType(htmlContent)]
      warned == [typed EXCEPT !.compatibilityWarnings =
                                 generateCompatibilityWarnings(htmlContent, typed)]
  IN  IF warned.clientType = "" /\ Includes(ToLowerCase(htmlContent), "eaglercraft")
      THEN [warned EXCEPT !.clientType = "Eaglercraft (Unknown Version)"]
      ELSE warned

\* the content of an uploaded page, and of the pages in an archive
PlainPage == <<"<html><body>hello</body></html>">>

\* the contents a selected file can have
RECURSIVE Repeat(_, _)
Repeat(s, n) == IF n = 0 THEN "" ELSE s \o Repeat(s, n - 1)

ContentPool ==
  { PlainPage,
    <<"<title>EaglerX</title> WebGL localStorage">>,
    <<InvalidByte, "PK", InvalidByte>>,
    <<InvalidByte, "Resent client fullscreen">>,
    \* one trigger, several triggers, and a trigger next to "webgl2"
    <<"WebGL">>,
    <<"WebGL webgl2">>,
    <<"sessionStorage getUserMedia">>,
    <<"requestFullscreen">>,
    <<"eaglercraft beta WebGL localStorage fullscreen navigator.mediaDevices">>,
    <<"Eaglercraft Alpha">>,
    <<Repeat("<script>", 10)>>,
    <<Repeat("<script>", 11), "getUserMedia">>,
    \* engine versions, in each of the three notations
    <<"minecraft version 1.4">>,
    <<"mc 1.2.5">>,
    <<"minecraft v1.5.2">>,
    <<"mc_1.8.8 WebGL">>,
    <<"{\"version\": \"1.10\"}">>,
    <<"Minecraft version 1.12.2">> }

\* what lines 13-79 make of each content
Analyses == [bytes \in ContentPool |-> AnalyseContent(Utf8Decode(bytes))]

\* lines 80-85
AnalysisFailed == [NoDetection EXCEPT !.compatibilityWarnings = <<WarnNoAnalysis>>]

detectClientVersion_noCatch(htmlPath, files, unreadable, bytes) ==
  IF htmlPath \in files \ unreadable
  THEN Analyses[bytes]
  ELSE NoDetection

\* files: the regular files on disk; unreadable: those whose read fails
\* with an I/O error; bytes: the content of the file at htmlPath
detectClientVersion(htmlPath, files, unreadable, bytes) ==
  IF htmlPath \in files \ unreadable
  THEN Analyses[bytes]
  ELSE AnalysisFailed

(***************************************************************************)
(* The uploads the transport layer (multer) hands to the upload handler.   *)
(***************************************************************************)
NoFile ==
  [present |-> FALSE, originalname |-> "", mimetype |-> "", size |-> 0,
   sig |-> "", readable |-> TRUE, openable |-> FALSE, entries |-> << >>,
   errAt |-> 0, corruptAt |-> 0, bytes |-> PlainPage]

ZipFile(name, entries) ==
  [NoFile EXCEPT !.present = TRUE, !.originalname = name,
                 !.mimetype = "application/zip", !.size = 4096,
                 !.sig = "504b0304", !.openable = TRUE, !.entries = entries]

LooseFile(name, mime) ==
  [NoFile EXCEPT !.present = TRUE, !.originalname = name, !.mimetype = mime,
                 !.size = 2048, !.sig = "3c68746d"]

\* the uploads of Spec: one of each kind the handler tells apart, and the
\* ways an archive can fail
ServerUploads ==
  { NoFile,
    LooseFile("game.html", "text/html"),
    ZipFile("site.zip", <<"index.html">>),
    ZipFile("mc.zip", <<"client.jar">>),
    ZipFile("cfg.zip", <<"cfg.json">>),
    \* not an archive at all
    [ZipFile("junk.zip", << >>) EXCEPT !.openable = FALSE, !.sig = "3c68746d"],
    \* the entry cannot be opened (e.g. it is encrypted)
    [ZipFile("enc.zip", <<"a.html">>) EXCEPT !.errAt = 1],
    \* the central directory is damaged
    [ZipFile("bad.zip", << >>) EXCEPT !.corruptAt = 1] }

\* the entry names of SpecIngest's archives
NamePool ==
  { "index.html", "PLAY.HTM", "index.htm", "sub/start.html", "mygame.htm",
    "sub/index.html", "xmain.html", "readme.html", "d/about.htm",
    "client.jar", "cfg.json", "app.js", "d/", "notes.txt",
    "../evil.html", "/abs.html", "d\\..\\..\\up.jar" }

RECURSIVE SeqsUpTo(_, _)
SeqsUpTo(S, n) ==
  IF n = 0 THEN {<< >>}
  ELSE LET shorter == SeqsUpTo(S, n - 1)
       IN  shorter \cup {Append(s, x) : s \in shorter, x \in S}

IngestUploads == {ZipFile("bundle.zip", es) : es \in SeqsUpTo(NamePool, MaxEntries)}

(***************************************************************************)
(* State.                                                                  *)
(***************************************************************************)
VARIABLES
  fsFiles,        \* the regular files on disk (paths)
  fsDirs,         \* the directories on disk (paths)
  gameFiles,      \* the game_files table: id -> record
  currentFileId,  \* the next serial id
  req,            \* the requests: handler position, locals, response
  ext,            \* per upload: the state of extractZipAndAnalyzeContents
  uploadCount     \* the uploads received so far

vars == <<fsFiles, fsDirs, gameFiles, currentFileId, req, ext, uploadCount>>

Reqs == 1..MaxReq

uploadDir == "uploads"

Digit == <<"1", "2", "3", "4", "5", "6", "7", "8", "9">>

\* req.file.path: multer names each upload with 16 fresh random bytes
TmpPath(n) == PathJoin(uploadDir, "tmp" \o Digit[n])

\* `extracted_${Date.now()}_${Math.random().toString(36).substr(2, 9)}`:
\* a new name, or the name an earlier upload got (nothing makes the time
\* stamp and the random suffix of two calls differ)
ExtractDirName(n) == PathJoin(uploadDir, "extracted_17_k" \o Digit[n])

ExtractDirs == {ExtractDirName(n) : n \in 1..(uploadCount + 1)}

NoRecord ==
  [id |-> 0, name |-> "", originalName |-> "", contentType |-> "",
   filePath |-> "", clientVersion |-> "", minecraftVersion |-> "",
   clientType |-> "", compatibilityWarnings |-> << >>]

FreeReq ==
  [kind |-> "free", pc |-> "idle", file |-> NoFile, tmp |-> "",
   extractDir |-> "", finalFilePath |-> "", finalOriginalName |-> "",
   finalContentType |-> "", target |-> 0, todo |-> << >>,
   det |-> NoDetection, status |-> 0, message |-> "", created |-> 0,
   fsRes |-> "none", removed |-> {}, val |-> NoValidation,
   segment |-> "", filename |-> "", listing |-> {}, served |-> ""]

NoExt ==
  [zs |-> "none", idx |-> 0, allFiles |-> << >>, htmlFiles |-> << >>,
   jarFiles |-> << >>, timer |-> "unset", settled |-> "pending",
   requested |-> FALSE, open |-> {}, error |-> "", result |-> NoResult,
   written |-> {}]

Init ==
  /\ fsFiles = {}
  /\ fsDirs = {uploadDir}
  /\ gameFiles = << >>
  /\ currentFileId = 1
  /\ req = [r \in Reqs |-> FreeReq]
  /\ ext = [r \in Reqs |-> NoExt]
  /\ uploadCount = 0

\* requests are numbered in the order they arrive
FreeSlots == {r \in Reqs : req[r].kind = "free"}

NextSlot == CHOOSE r \in FreeSlots : \A o \in FreeSlots : r <= o

Respond(q, status, message) ==
  [q EXCEPT !.pc = "done", !.status = status, !.message = message]

(***************************************************************************)
(* POST /api/files/upload                                                  *)
(***************************************************************************)
IsZip(file) ==
  \/ file.mimetype = "application/zip"
  \/ file.mimetype = "application/x-zip-compressed"
  \/ EndsWith(ToLowerCase(file.originalname), ".zip")

\* lines 308-324
ContentTypeOf(file) ==
  LET n == ToLowerCase(file.originalname)
  IN  IF EndsWith(n, ".jar") THEN "application/java-archive"
      ELSE IF EndsWith(n, ".json") THEN "application/json"
      ELSE IF EndsWith(n, ".exe") THEN "application/x-msdownload"
      ELSE IF EndsWith(n, ".appimage") THEN "application/x-appimage"
      ELSE IF EndsWith(n, ".run") THEN "application/x-executable"
      ELSE IF file.mimetype \in {"application/x-executable", "application/x-elf"}
           THEN "application/x-executable"
      ELSE IF file.mimetype = "" THEN "text/html" ELSE file.mimetype

MsgZipFailed ==
  "Failed to extract ZIP file. Please ensure it contains valid game files."

\* the handler from its entry to its first await, lines 301-338 and 373:
\* multer has stored the upload at TmpPath(r)
UploadEnter(r, file, dir) ==
  LET q0 == [FreeReq EXCEPT !.kind = "upload", !.file = file]
      path == TmpPath(uploadCount + 1)
  IN
  IF ~file.present THEN
    /\ req' = [req EXCEPT ![r] = Respond(q0, 400, "No file uploaded")]
    /\ UNCHANGED <<fsFiles, fsDirs, ext>>
  ELSE
    LET q1 == [q0 EXCEPT !.tmp = path, !.finalFilePath = path,
                         !.finalOriginalName = file.originalname,
                         !.finalContentType = ContentTypeOf(file)]
    IN
    IF IsZip(file) THEN
      /\ req' = [req EXCEPT ![r] = [q1 EXCEPT !.pc = "extracting", !.extractDir = dir]]
      /\ fsFiles' = fsFiles \cup {path}
      /\ fsDirs' = fsDirs \cup DirChain(dir)
      /\ ext' = [ext EXCEPT ![r] = [NoExt EXCEPT !.zs = "opening"]]
    ELSE
      /\ req' = [req EXCEPT ![r] = [q1 EXCEPT !.pc = "detecting"]]
      /\ fsFiles' = fsFiles \cup {path}
      /\ UNCHANGED <<fsDirs, ext>>

StartUpload(uploads, limit) ==
  /\ FreeSlots # {}
  /\ uploadCount < limit
  /\ \E file \in uploads : \E dir \in ExtractDirs :
       UploadEnter(NextSlot, file, dir)
  /\ uploadCount' = uploadCount + 1
  /\ UNCHANGED <<gameFiles, currentFileId>>

AfterExtract_jarKeepsUpload(q, result) ==
  LET q1 == IF result.type = "html"
            THEN [q EXCEPT !.finalFilePath = result.htmlPath,
                           !.finalOriginalName = result.originalName,
                           !.finalContentType = "text/html"]
            ELSE q
  IN  [q1 EXCEPT !.pc = "detecting"]

\* lines 347-360: the extraction resolved
AfterExtract(q, result) ==
  LET q1 == IF result.type = "html"
            THEN [q EXCEPT !.finalFilePath = result.htmlPath,
                           !.finalOriginalName = result.originalName,
                           !.finalContentType = "text/html"]
            ELSE IF result.type = "jar"
            THEN [q EXCEPT !.finalFilePath = q.extractDir,
                           !.finalOriginalName = q.file.originalname,
                           !.finalContentType = "application/java-archive"]
            ELSE q
  IN  [q1 EXCEPT !.pc = "detecting"]

\* line 360: fs.unlinkSync(req.file.path)
AfterExtractFiles(files, q) == files \ {q.tmp}

\* lines 362-369: catch (zipError)
CatchZipError(q) == Respond(q, 400, MsgZipFailed)

CatchZipErrorFiles_keep(files, q) == files

CatchZipErrorFiles(files, q) == files \ {q.tmp}

CatchZipErrorDirs(dirs, q) == dirs

\* An event of the extraction of r leaves the extraction in e2 and the disk
\* in files2, dirs2, and settles the promise with `how` ("none", "resolved",
\* "rejected"). A promise settles once; the handler awaiting it continues in
\* the same turn of the event loop.
Settle(r, e2, how, files2, dirs2) ==
  IF how # "none" /\ ext[r].settled = "pending" THEN
    /\ ext' = [ext EXCEPT ![r] = [e2 EXCEPT !.settled = how]]
    /\ IF how = "resolved" THEN
         /\ req' = [req EXCEPT ![r] = AfterExtract(req[r], e2.result)]
         /\ fsFiles' = AfterExtractFiles(files2, req[r])
         /\ fsDirs' = dirs2
       ELSE
         /\ req' = [req EXCEPT ![r] = CatchZipError(req[r])]
         /\ fsFiles' = CatchZipErrorFiles(files2, req[r])
         /\ fsDirs' = CatchZipErrorDirs(dirs2, req[r])
  ELSE
    /\ ext' = [ext EXCEPT ![r] = e2]
    /\ req' = req
    /\ fsFiles' = files2
    /\ fsDirs' = dirs2

\* zipfile.readEntry(): the next entry (or the end) is requested; with
\* lazyEntries yauzl emits an "entry" or "end" only on request
ReadEntry(e) == [e EXCEPT !.requested = TRUE]

\* lines 114-123: the write stream for outputPath is open and the entry is
\* piped into it; the next entry is not requested here
StartCopy_eager(e, outputPath) ==
  ReadEntry([e EXCEPT !.open = @ \cup {outputPath}, !.written = @ \cup {outputPath}])

StartCopy(e, outputPath) ==
  [e EXCEPT !.open = @ \cup {outputPath}, !.written = @ \cup {outputPath}]

\* lines 280-282: setTimeout(..., 30000)
ArmTimer_never(e) == e

ArmTimer(e) == [e EXCEPT !.timer = "armed"]

\* yauzl.open's callback, lines 68-83 and 280: an error rejects; otherwise
\* the first entry is requested and the timer is armed
ZipOpen(r) ==
  /\ req[r].kind = "upload"
  /\ ext[r].zs = "opening"
  /\ IF ~req[r].file.openable
     THEN Settle(r, [ext[r] EXCEPT !.zs = "failed", !.error = ErrOpen],
                 "rejected", fsFiles, fsDirs)
     ELSE Settle(r, ArmTimer(ReadEntry([ext[r] EXCEPT !.zs = "reading"])),
                 "none", fsFiles, fsDirs)
  /\ UNCHANGED <<gameFiles, currentFileId, uploadCount>>

\* lines 85-100: the lists after the entry fileName
PushAll(e, fileName) == [e EXCEPT !.allFiles = Append(@, fileName)]

Partition(e, fileName) ==
  IF IsHtmlName(fileName) THEN [e EXCEPT !.htmlFiles = Append(@, fileName)]
  ELSE IF IsJarName(fileName) THEN [e EXCEPT !.jarFiles = Append(@, fileName)]
  ELSE e

\* the "entry" event and, for a file, openReadStream's callback, lines 85-123
ZipEntry(r) ==
  /\ req[r].kind = "upload"
  /\ ext[r].zs = "reading"
  /\ ext[r].requested
  /\ ext[r].idx < Len(req[r].file.entries)
  /\ req[r].file.corruptAt # ext[r].idx + 1
  /\ EntryError(req[r].file.entries[ext[r].idx + 1]) = ""
  /\ LET i == ext[r].idx + 1
         fileName == EntryFileName(req[r].file.entries[i])
         e1 == [PushAll(ext[r], fileName) EXCEPT !.idx = i, !.requested = FALSE]
     IN  IF IsDirEntry(fileName) THEN
           \* skipped: zipfile.readEntry()
           Settle(r, ReadEntry(e1), "none", fsFiles, fsDirs)
         ELSE IF req[r].file.errAt = i THEN
           \* reject(err), and no further entry is requested
           Settle(r, [Partition(e1, fileName) EXCEPT !.zs = "failed", !.error = ErrEntry],
                  "rejected", fsFiles, fsDirs)
         ELSE
           LET outputPath == PathJoin(req[r].extractDir, fileName)
           IN  Settle(r, StartCopy(Partition(e1, fileName), outputPath),
                      "none", fsFiles \cup {outputPath},
                      fsDirs \cup DirChain(Dirname(outputPath)))
  /\ UNCHANGED <<gameFiles, currentFileId, uploadCount>>

\* writeStream's "close", lines 125-127: the next entry is requested
ZipWriteClose(r) ==
  /\ req[r].kind = "upload"
  /\ ext[r].zs = "reading"
  /\ \E p \in ext[r].open :
       Settle(r, ReadEntry([ext[r] EXCEPT !.open = @ \ {p}]), "none", fsFiles, fsDirs)
  /\ UNCHANGED <<gameFiles, currentFileId, uploadCount>>

\* the "end" event, lines 131-272
ZipEnd(r) ==
  /\ req[r].kind = "upload"
  /\ ext[r].zs = "reading"
  /\ ext[r].requested
  /\ ext[r].idx = Len(req[r].file.entries)
  /\ req[r].file.corruptAt # ext[r].idx + 1
  /\ LET e == ext[r]
         res == EndHandler(e.htmlFiles, e.jarFiles, e.allFiles,
                           req[r].extractDir, req[r].tmp)
     IN  IF res.ok
         THEN Settle(r, [e EXCEPT !.zs = "ended", !.requested = FALSE,
                                  !.result = res, !.timer = "cleared"],
                     "resolved", fsFiles, fsDirs)
         ELSE Settle(r, [e EXCEPT !.zs = "ended", !.requested = FALSE,
                                  !.result = res, !.error = res.error],
                     "rejected", fsFiles, fsDirs)
  /\ UNCHANGED <<gameFiles, currentFileId, uploadCount>>

\* the "error" event, lines 274-277
ZipError(r) ==
  /\ req[r].kind = "upload"
  /\ ext[r].zs = "reading"
  /\ ext[r].requested
  /\ LET i == ext[r].idx + 1
         damaged == req[r].file.corruptAt = i
         badName == i <= Len(req[r].file.entries) /\ EntryError(req[r].file.entries[i]) # ""
     IN  /\ damaged \/ badName
         /\ Settle(r, [ext[r] EXCEPT !.zs = "failed", !.requested = FALSE,
                        !.error = IF damaged THEN ErrCorrupt
                                  ELSE ErrExtractPrefix \o EntryError(req[r].file.entries[i])],
                   "rejected", fsFiles, fsDirs)
  /\ UNCHANGED <<gameFiles, currentFileId, uploadCount>>

\* the 30 s timer, lines 280-282; only the "end" handler clears it. A timer
\* that fires after the promise has settled calls reject to no effect, and
\* is left out.
ZipTimeout(r) ==
  /\ req[r].kind = "upload"
  /\ ext[r].timer = "armed"
  /\ ext[r].settled = "pending"
  /\ Settle(r, [ext[r] EXCEPT !.timer = "fired",
                              !.error = IF @ = "" THEN ErrTimeout ELSE @],
            "rejected", fsFiles, fsDirs)
  /\ UNCHANGED <<gameFiles, currentFileId, uploadCount>>

\* lines 373-388: detectClientVersion reads the file and returns; statSync
\* throws on a missing path (outer catch, 500); else createGameFile is called
NewRecord(q, det) ==
  [NoRecord EXCEPT !.name = LastSegment(q.finalFilePath),
                   !.originalName = q.finalOriginalName,
                   !.contentType = q.finalContentType,
                   !.filePath = q.finalFilePath,
                   !.clientVersion = det.clientVersion,
                   !.minecraftVersion = det.minecraftVersion,
                   !.clientType = det.clientType,
                   !.compatibilityWarnings = det.compatibilityWarnings]

\* the stored upload itself when the upload is one that cannot be read
Unreadable(q) == IF q.file.readable THEN {} ELSE {q.tmp}

UploadDetected(r) ==
  /\ req[r].kind = "upload"
  /\ req[r].pc = "detecting"
  /\ IF req[r].finalFilePath \in fsFiles \cup fsDirs
     THEN req' = [req EXCEPT ![r].pc = "creating",
                             ![r].det = detectClientVersion(req[r].finalFilePath, fsFiles,
                                                            Unreadable(req[r]),
                                                            req[r].file.bytes)]
     ELSE req' = [req EXCEPT ![r] = Respond(@, 500, "Failed to upload file")]
  /\ UNCHANGED <<fsFiles, fsDirs, gameFiles, currentFileId, ext, uploadCount>>

\* DatabaseStorage.createGameFile / MemStorage.createGameFile
createGameFile(table, id, data) == table @@ (id :> [data EXCEPT !.id = id])

UploadCreated_orphan(r) ==
  /\ req[r].kind = "upload"
  /\ req[r].pc = "creating"
  /\ gameFiles' = createGameFile(gameFiles, currentFileId,
                     NewRecord(req[r], req[r].det))
  /\ currentFileId' = currentFileId + 1
  /\ \/ req' = [req EXCEPT ![r] = [Respond(@, 200, "") EXCEPT !.created = @ + 1]]
     \/ req' = [req EXCEPT ![r] = Respond(@, 500, "Failed to upload file")]
  /\ UNCHANGED <<fsFiles, fsDirs, ext, uploadCount>>

\* lines 388-390, and the outer catch when the insert throws
UploadCreated(r) ==
  /\ req[r].kind = "upload"
  /\ req[r].pc = "creating"
  /\ \/ /\ gameFiles' = createGameFile(gameFiles, currentFileId,
                          NewRecord(req[r], req[r].det))
        /\ currentFileId' = currentFileId + 1
        /\ req' = [req EXCEPT ![r] = [Respond(@, 200, "") EXCEPT !.created = @ + 1]]
     \/ /\ req' = [req EXCEPT ![r] = Respond(@, 500, "Failed to upload file")]
        /\ UNCHANGED <<gameFiles, currentFileId>>
  /\ UNCHANGED <<fsFiles, fsDirs, ext, uploadCount>>

UploadActions ==
  \E r \in Reqs :
    \/ ZipOpen(r)
    \/ ZipEntry(r)
    \/ ZipWriteClose(r)
    \/ ZipEnd(r)
    \/ ZipError(r)
    \/ ZipTimeout(r)
    \/ UploadDetected(r)
    \/ UploadCreated(r)

(***************************************************************************)
(* DELETE /api/files/:id and DELETE /api/files                             *)
(***************************************************************************)
\* DatabaseStorage.getGameFile: the row, or NoRecord for undefined
getGameFile(table, id) == IF id \in DOMAIN table THEN table[id] ELSE NoRecord

\* DatabaseStorage.deleteGameFile: the table without the row; it returns
\* whether a row was deleted
deleteGameFile(table, id) == [i \in DOMAIN table \ {id} |-> table[i]]

\* DatabaseStorage.getAllGameFiles: newest first (ids are handed out in
\* upload order)
RECURSIVE getAllGameFiles(_)
getAllGameFiles(table) ==
  IF DOMAIN table = {} THEN << >>
  ELSE LET top == Max(DOMAIN table)
       IN  <<table[top]>> \o getAllGameFiles(deleteGameFile(table, top))

Exists(path) == path \in fsFiles \cup fsDirs

\* lines 629-638: rmSync(recursive, force) of a directory, unlinkSync of a file
RemoveFiles(path) ==
  IF path \in fsDirs THEN {f \in fsFiles : ~Under(path, f)} ELSE fsFiles \ {path}

RemoveDirs(path) ==
  IF path \in fsDirs THEN {d \in fsDirs : ~Under(path, d)} ELSE fsDirs

\* line 622: the request arrives and getGameFile reads the row; the handler
\* continues with what was read
StartDelete ==
  /\ FreeSlots # {}
  /\ \E id \in 1..MaxUploads :
       req' = [req EXCEPT ![NextSlot] =
                 [FreeReq EXCEPT !.kind = "delete", !.pc = "getting", !.target = id,
                                 !.todo = <<getGameFile(gameFiles, id)>>]]
  /\ UNCHANGED <<fsFiles, fsDirs, gameFiles, currentFileId, ext, uploadCount>>

\* lines 624-641: getGameFile has returned; the artifact is removed, which
\* may throw (catch, 500), and deleteGameFile is called
DeleteRemoveArtifact_swallow(r, file, throws) ==
  /\ req' = [req EXCEPT ![r] = [@ EXCEPT !.pc = "deleting",
               !.fsRes = IF throws THEN "threw"
                         ELSE IF Exists(file.filePath) THEN "removed" ELSE "absent"]]
  /\ fsFiles' = IF throws THEN fsFiles ELSE RemoveFiles(file.filePath)
  /\ fsDirs' = IF throws THEN fsDirs ELSE RemoveDirs(file.filePath)

DeleteRemoveArtifact(r, file, throws) ==
  IF throws THEN
    /\ req' = [req EXCEPT ![r] = [Respond(@, 500, "Failed to delete file")
                                    EXCEPT !.fsRes = "threw"]]
    /\ UNCHANGED <<fsFiles, fsDirs>>
  ELSE
    /\ req' = [req EXCEPT ![r] = [@ EXCEPT !.pc = "deleting",
                 !.fsRes = IF Exists(file.filePath) THEN "removed" ELSE "absent"]]
    /\ fsFiles' = RemoveFiles(file.filePath)
    /\ fsDirs' = RemoveDirs(file.filePath)

DeleteGot_noCheck(r) ==
  /\ req[r].kind = "delete"
  /\ req[r].pc = "getting"
  /\ DeleteRemoveArtifact(r, req[r].todo[1], FALSE)
  /\ UNCHANGED <<gameFiles, currentFileId, ext, uploadCount>>

DeleteGot(r) ==
  /\ req[r].kind = "delete"
  /\ req[r].pc = "getting"
  /\ LET file == req[r].todo[1]
     IN  IF file = NoRecord THEN
           /\ req' = [req EXCEPT ![r] = Respond(@, 404, "File not found")]
           /\ UNCHANGED <<fsFiles, fsDirs>>
         ELSE
           \E throws \in {FALSE, Exists(file.filePath)} :
             DeleteRemoveArtifact(r, file, throws)
  /\ UNCHANGED <<gameFiles, currentFileId, ext, uploadCount>>

\* lines 641-651: deleteGameFile has returned, or has thrown
DeleteDone(r) ==
  /\ req[r].kind = "delete"
  /\ req[r].pc = "deleting"
  /\ \/ LET deleted == req[r].target \in DOMAIN gameFiles
        IN  /\ gameFiles' = deleteGameFile(gameFiles, req[r].target)
            /\ req' = [req EXCEPT ![r] =
                  IF deleted
                  THEN [Respond(@, 200, "File deleted successfully")
                          EXCEPT !.removed = @ \cup {req[r].target}]
                  ELSE Respond(@, 500, "Failed to delete file")]
     \/ /\ req' = [req EXCEPT ![r] = Respond(@, 500, "Failed to delete file")]
        /\ UNCHANGED gameFiles
  /\ UNCHANGED <<fsFiles, fsDirs, currentFileId, ext, uploadCount>>

\* line 657: the request arrives and getAllGameFiles reads the rows
StartClear ==
  /\ FreeSlots # {}
  /\ req' = [req EXCEPT ![NextSlot] =
               [FreeReq EXCEPT !.kind = "clear", !.pc = "iterating",
                               !.todo = getAllGameFiles(gameFiles)]]
  /\ UNCHANGED <<fsFiles, fsDirs, gameFiles, currentFileId, ext, uploadCount>>

\* lines 660-674: one turn of the loop up to its await, or the response
\* after the last file
ClearIterate(r, list, throws) ==
  IF list = << >> THEN
    /\ req' = [req EXCEPT ![r] = Respond(@, 200, "All files deleted successfully")]
    /\ UNCHANGED <<fsFiles, fsDirs>>
  ELSE IF throws THEN
    /\ req' = [req EXCEPT ![r] = [Respond(@, 500, "Failed to clear files")
                                    EXCEPT !.fsRes = "threw"]]
    /\ UNCHANGED <<fsFiles, fsDirs>>
  ELSE
    /\ req' = [req EXCEPT ![r] = [@ EXCEPT !.pc = "clearing",
                 !.fsRes = IF Exists(list[1].filePath) THEN "removed" ELSE "absent"]]
    /\ fsFiles' = RemoveFiles(list[1].filePath)
    /\ fsDirs' = RemoveDirs(list[1].filePath)

\* the handler continues after getAllGameFiles, or after a deleteGameFile
ClearGot(r) ==
  /\ req[r].kind = "clear"
  /\ req[r].pc = "iterating"
  /\ LET list == req[r].todo
     IN  \E throws \in {FALSE, list # << >> /\ Exists(list[1].filePath)} :
           ClearIterate(r, list, throws)
  /\ UNCHANGED <<gameFiles, currentFileId, ext, uploadCount>>

\* line 673: deleteGameFile deletes the row, or throws (catch, 500)
ClearDeleted(r) ==
  /\ req[r].kind = "clear"
  /\ req[r].pc = "clearing"
  /\ \/ LET id == req[r].todo[1].id
        IN  /\ gameFiles' = deleteGameFile(gameFiles, id)
            /\ req' = [req EXCEPT ![r] =
                  [@ EXCEPT !.pc = "iterating", !.todo = Tail(@),
                            !.removed = @ \cup ({id} \cap DOMAIN gameFiles)]]
     \/ /\ req' = [req EXCEPT ![r] = Respond(@, 500, "Failed to clear files")]
        /\ UNCHANGED gameFiles
  /\ UNCHANGED <<fsFiles, fsDirs, currentFileId, ext, uploadCount>>

DeleteActions ==
  \E r \in Reqs :
    \/ DeleteGot(r)
    \/ DeleteDone(r)
    \/ ClearGot(r)
    \/ ClearDeleted(r)

(***************************************************************************)
(* GET /api/files/:id/content and GET /api/files/:id/download/:filename    *)
(***************************************************************************)
\* encodeURIComponent on the characters file names hold here
RECURSIVE encodeURIComponent(_)
encodeURIComponent(s) ==
  LET EscapeOf(c) ==
        CASE c = "/" -> "%2F" [] c = "%" -> "%25" [] c = " " -> "%20" [] OTHER -> c
  IN  IF s = "" THEN "" ELSE EscapeOf(Head(s)) \o encodeURIComponent(Tail(s))

\* decodeURIComponent: ok is FALSE where it throws URIError (a "%" that no
\* two hex digits follow); "?" stands for the characters that are in no
\* name of the model
RECURSIVE decodeURIComponent(_)
decodeURIComponent(s) ==
  LET IsHex(c) == Len(c) = 1 /\ Includes("0123456789abcdefABCDEF", c)
      Unescape(h) ==
        LET l == ToLowerCase(h)
        IN  CASE l = "%2f" -> "/" [] l = "%25" -> "%" [] l = "%20" -> " "
              [] l = "%2e" -> "." [] OTHER -> "?"
  IN
  IF s = "" THEN [ok |-> TRUE, value |-> ""]
  ELSE IF Head(s) # "%" THEN
    LET rest == decodeURIComponent(Tail(s))
    IN  [ok |-> rest.ok, value |-> IF rest.ok THEN Head(s) \o rest.value ELSE ""]
  ELSE IF Len(s) >= 3 /\ IsHex(SubSeq(s, 2, 2)) /\ IsHex(SubSeq(s, 3, 3)) THEN
    LET rest == decodeURIComponent(SubSeq(s, 4, Len(s)))
    IN  [ok |-> rest.ok,
         value |-> IF rest.ok THEN Unescape(SubSeq(s, 1, 3)) \o rest.value ELSE ""]
  ELSE [ok |-> FALSE, value |-> ""]

\* the path of p relative to the directory dir above it
Relative(dir, p) == SubSeq(p, Len(dir) + 2, Len(p))

\* fs.readdirSync(dir, {recursive: true}): the files and the directories
\* below dir, each by its path relative to dir
ReaddirRecursive(dir) ==
  {Relative(dir, p) : p \in {x \in fsFiles \cup fsDirs : StartsWith(x, dir \o "/")}}

\* lines 502-503 and 590-599: one link for every listed name
DownloadPage(dir) ==
  LET files == ReaddirRecursive(dir)
      jarFiles == {f \in files : EndsWith(ToLowerCase(f), ".jar")}
      jsonFiles == {f \in files : EndsWith(ToLowerCase(f), ".json")}
  IN  {[name |-> f, href |-> encodeURIComponent(f)] : f \in jarFiles \cup jsonFiles}

\* line 487: the request arrives and getGameFile reads the row
StartContent ==
  /\ FreeSlots # {}
  /\ \E id \in 1..(MaxUploads + 1) :
       req' = [req EXCEPT ![NextSlot] =
                 [FreeReq EXCEPT !.kind = "content", !.pc = "getting", !.target = id,
                                 !.todo = <<getGameFile(gameFiles, id)>>]]
  /\ UNCHANGED <<fsFiles, fsDirs, gameFiles, currentFileId, ext, uploadCount>>

\* lines 489-615: readdirSync throws on a path that is no directory and
\* readFileSync on one that is a directory (catch, 500)
ContentGot(r) ==
  /\ req[r].kind = "content"
  /\ req[r].pc = "getting"
  /\ LET file == req[r].todo[1]
         filePath == file.filePath
     IN  req' = [req EXCEPT ![r] =
           IF file = NoRecord THEN Respond(@, 404, "File not found")
           ELSE IF ~Exists(filePath) THEN Respond(@, 404, "File content not found")
           ELSE IF file.contentType = "application/java-archive" THEN
             IF filePath \in fsDirs
             THEN [Respond(@, 200, "") EXCEPT !.listing = DownloadPage(filePath)]
             ELSE Respond(@, 500, "Failed to serve file")
           ELSE
             IF filePath \in fsFiles
             THEN [Respond(@, 200, "") EXCEPT !.served = filePath]
             ELSE Respond(@, 500, "Failed to serve file")]
  /\ UNCHANGED <<fsFiles, fsDirs, gameFiles, currentFileId, ext, uploadCount>>

\* line 419: let searchPath = file.filePath
SearchPath_uploadDir(file) == uploadDir

SearchPath(file) == file.filePath

\* lines 423-437: the files below dir whose own name is targetFile; which of
\* them is met first is the order readdirSync lists each directory in
findFileRecursively(dir, targetFile) ==
  {p \in fsFiles : StartsWith(p, dir \o "/") /\ LastSegment(p) = targetFile}

\* the segments a request can send as :filename
DownloadParams ==
  { "client.jar", "lib%2Fcfg.json", "index.html", "..%252Ftmp2",
    "%2Fuploads%2Ftmp2", "50%", "50%25" }

\* lines 410-413: Express decodes the segment into req.params.filename (400
\* when it cannot), the handler decodes that once more (URIError: catch,
\* 500), and getGameFile reads the row
DownloadEnter(r, id, segment) ==
  LET param == decodeURIComponent(segment)
      filename == decodeURIComponent(param.value)
      q0 == [FreeReq EXCEPT !.kind = "download", !.target = id, !.segment = segment]
  IN  req' = [req EXCEPT ![r] =
        IF ~param.ok THEN Respond(q0, 400, "Failed to decode param")
        ELSE IF ~filename.ok THEN Respond(q0, 500, "Failed to download file")
        ELSE [q0 EXCEPT !.pc = "getting", !.filename = filename.value,
                        !.todo = <<getGameFile(gameFiles, id)>>]]

StartDownload ==
  /\ FreeSlots # {}
  /\ \E id \in 1..(MaxUploads + 1) : \E segment \in DownloadParams :
       DownloadEnter(NextSlot, id, segment)
  /\ UNCHANGED <<fsFiles, fsDirs, gameFiles, currentFileId, ext, uploadCount>>

\* lines 414-455: up to the await of fs.promises.stat; readdirSync throws on
\* a path that is no directory (catch, 500)
DownloadGot(r) ==
  /\ req[r].kind = "download"
  /\ req[r].pc = "getting"
  /\ LET file == req[r].todo[1]
         searchPath == SearchPath(file)
     IN  IF file = NoRecord THEN
           req' = [req EXCEPT ![r] = Respond(@, 404, "File not found")]
         ELSE IF searchPath \notin fsDirs THEN
           req' = [req EXCEPT ![r] = Respond(@, 500, "Failed to download file")]
         ELSE IF findFileRecursively(searchPath, req[r].filename) = {} THEN
           req' = [req EXCEPT ![r] = Respond(@, 404, "File not found in archive")]
         ELSE
           \E filePath \in findFileRecursively(searchPath, req[r].filename) :
             req' = [req EXCEPT ![r] =
               IF ~StartsWith(filePath, searchPath) THEN Respond(@, 403, "Access denied")
               ELSE IF ~Exists(filePath) THEN Respond(@, 404, "File not found")
               ELSE [@ EXCEPT !.pc = "stating", !.finalFilePath = filePath]]
  /\ UNCHANGED <<fsFiles, fsDirs, gameFiles, currentFileId, ext, uploadCount>>

\* lines 455-475: stat has returned, or has thrown on a path that is gone
\* (catch, 500); the file is piped into the response
DownloadStat(r) ==
  /\ req[r].kind = "download"
  /\ req[r].pc = "stating"
  /\ LET filePath == req[r].finalFilePath
     IN  req' = [req EXCEPT ![r] =
           IF ~Exists(filePath) THEN Respond(@, 500, "Failed to download file")
           ELSE IF filePath \notin fsFiles THEN Respond(@, 404, "Not a file")
           ELSE [Respond(@, 200, "") EXCEPT !.served = filePath]]
  /\ UNCHANGED <<fsFiles, fsDirs, gameFiles, currentFileId, ext, uploadCount>>

ServeActions ==
  \E r \in Reqs :
    \/ ContentGot(r)
    \/ DownloadGot(r)
    \/ DownloadStat(r)

Next ==
  \/ StartUpload(ServerUploads, MaxUploads)
  \/ UploadActions
  \/ StartDelete
  \/ StartClear
  \/ DeleteActions

Spec == Init /\ [][Next]_vars

(***************************************************************************)
(* SpecIngest: one upload of any archive over NamePool; every entry can be *)
(* read, and names that leave the extraction root are among them.          *)
(***************************************************************************)
IngestActions ==
  \E r \in Reqs :
    \/ ZipOpen(r)
    \/ ZipEntry(r)
    \/ ZipWriteClose(r)
    \/ ZipEnd(r)
    \/ ZipError(r)
    \/ ZipTimeout(r)
    \/ UploadDetected(r)
    \/ UploadCreated(r)

NextIngest ==
  \/ StartUpload(IngestUploads, 1)
  \/ IngestActions

SpecIngest == Init /\ [][NextIngest]_vars

(***************************************************************************)
(* SpecIngestLive: SpecIngest with the scheduling Node guarantees: the     *)
(* callback of yauzl.open is called, an armed timer fires, and the awaits  *)
(* of the handler (reading the file, the insert) return or throw. Nothing  *)
(* is assumed of the archive's streams: an entry may never arrive and a    *)
(* write stream may never close.                                           *)
(***************************************************************************)
SpecIngestLive ==
  /\ SpecIngest
  /\ \A r \in Reqs :
       /\ WF_vars(ZipOpen(r))
       /\ WF_vars(ZipTimeout(r))
       /\ WF_vars(UploadDetected(r))
       /\ WF_vars(UploadCreated(r))

(***************************************************************************)
(* SpecAnalyze: one upload whose selected file is analysed: a loose page   *)
(* or a bundle, over the contents of ContentPool, readable or not.         *)
(***************************************************************************)
AnalyzeUploads ==
  { [LooseFile("game.html", "text/html") EXCEPT !.bytes = b, !.readable = ok] :
      b \in ContentPool, ok \in BOOLEAN }
  \cup
  { [f EXCEPT !.bytes = b] :
      f \in { ZipFile("site.zip", <<"index.html", "app.js">>),
              ZipFile("mc.zip", <<"client.jar">>),
              [ZipFile("bad.zip", << >>) EXCEPT !.corruptAt = 1] },
      b \in ContentPool }

NextAnalyze == StartUpload(AnalyzeUploads, 1) \/ UploadActions

SpecAnalyze == Init /\ [][NextAnalyze]_vars

(***************************************************************************)
(* SpecValidate: one call of validateZipFile on a stored file. No handler  *)
(* of routes.ts makes this call; the function is exported and is checked   *)
(* as an operation of its own.                                             *)
(***************************************************************************)
MB == 1024 * 1024

ValidateSizes == {0, 99, 100, 4096, 50 * MB, 50 * MB + 1, 80 * MB, 80 * MB + 1}

ValidateSignatures == validSignatures \cup {"3c68746d", "504b0000"}

ValidatePaths ==
  { "uploads/5f3a9c", "uploads/site.zip", "uploads/.hidden", "uploads/tool.JAR",
    "uploads/what?.zip" }

ValidateFiles ==
  { [NoFile EXCEPT !.present = TRUE, !.size = n, !.sig = g, !.readable = ok] :
      n \in ValidateSizes, g \in ValidateSignatures, ok \in BOOLEAN }

\* validateZipFile(zipPath) is called
StartValidate ==
  /\ \A r \in Reqs : req[r].kind = "free"
  /\ \E zipPath \in ValidatePaths : \E file \in ValidateFiles :
       req' = [req EXCEPT ![NextSlot] =
                 [FreeReq EXCEPT !.kind = "validate", !.pc = "validating",
                                 !.tmp = zipPath, !.file = file]]
  /\ UNCHANGED <<fsFiles, fsDirs, gameFiles, currentFileId, ext, uploadCount>>

\* lines 202-263: the call returns its result
ValidateReturn(r) ==
  /\ req[r].kind = "validate"
  /\ req[r].pc = "validating"
  /\ req' = [req EXCEPT ![r].pc = "done",
                        ![r].val = validateZipFile(req[r].tmp, req[r].file)]
  /\ UNCHANGED <<fsFiles, fsDirs, gameFiles, currentFileId, ext, uploadCount>>

NextValidate == StartValidate \/ \E r \in Reqs : ValidateReturn(r)

SpecValidate == Init /\ [][NextValidate]_vars

(***************************************************************************)
(* SpecPair: uploads that can be in progress at the same time.             *)
(***************************************************************************)
PairUploads ==
  { ZipFile("site.zip", <<"index.html">>),
    ZipFile("mc.zip", <<"client.jar">>),
    ZipFile("cfg.zip", <<"cfg.json">>),
    ZipFile("notes.zip", <<"notes.txt">>),
    [ZipFile("junk.zip", << >>) EXCEPT !.openable = FALSE, !.sig = "3c68746d"],
    [ZipFile("bad.zip", << >>) EXCEPT !.corruptAt = 1] }

NextPair ==
  \/ StartUpload(PairUploads, MaxUploads + 1)
  \/ UploadActions

SpecPair == Init /\ [][NextPair]_vars

(***************************************************************************)
(* SpecServe: up to two uploads, and requests for the content of a record  *)
(* and for single files of it.                                             *)
(***************************************************************************)
ServeUploads ==
  { ZipFile("pack.zip", <<"client.jar", "lib/cfg.json">>),
    ZipFile("site.zip", <<"index.html">>),
    [ZipFile("bad.zip", << >>) EXCEPT !.corruptAt = 1],
    LooseFile("client.jar", "application/java-archive") }

NextServe ==
  \/ StartUpload(ServeUploads, MaxUploads + 1)
  \/ UploadActions
  \/ StartContent
  \/ StartDownload
  \/ ServeActions

SpecServe == Init /\ [][NextServe]_vars

(***************************************************************************)
(* Properties of the upload endpoint.                                      *)
(***************************************************************************)
ZipUploads ==
  {r \in Reqs : req[r].kind = "upload" /\ req[r].file.present /\ IsZip(req[r].file)}

Finished(r) == req[r].pc = "done"

\* the paths on disk at or below dir
OnDiskUnder(dir) == {p \in fsFiles \cup fsDirs : Under(dir, p)}

\* C1: once the request of a ZIP upload has finished (record persisted, or
\* rejected at any stage), the temporary uploaded ZIP file is not on disk.
C1_TempZipGone ==
  \A r \in ZipUploads : Finished(r) => req[r].tmp \notin fsFiles

\* a ZIP upload was rejected by the timeout after an entry had been written,
\* and its temporary file is gone
C1_Witness ==
  \E r \in ZipUploads :
    /\ Finished(r) /\ req[r].status = 400
    /\ ext[r].timer = "fired" /\ ext[r].written # {}
    /\ req[r].tmp \notin fsFiles

\* C2: when a ZIP upload is rejected after its extraction directory was
\* created, that directory and everything written into it is gone by the
\* time the request finishes.
C2_ExtractDirGoneOnReject ==
  \A r \in ZipUploads :
    (Finished(r) /\ req[r].status = 400 /\ req[r].extractDir # "")
      => OnDiskUnder(req[r].extractDir) = {}

\* C3: no extraction begins unless validateZipFile returned isValid = TRUE on
\* the temporary file; when it returns FALSE the upload is rejected with the
\* validator's error, the temporary file is deleted and no extraction
\* directory is created.
C3_ValidatedBeforeExtract ==
  \A r \in ZipUploads :
    LET v == validateZipFile(req[r].tmp, req[r].file)
    IN  /\ ext[r].zs # "none" => v.isValid
        /\ ~v.isValid =>
             /\ req[r].extractDir = ""
             /\ Finished(r) =>
                  /\ req[r].status = 400
                  /\ req[r].message = v.errors[1]
                  /\ req[r].tmp \notin fsFiles

(***************************************************************************)
(* Properties of the entry-point classifier, stated on the archive's entry *)
(* paths in archive order.                                                 *)
(***************************************************************************)
EndedUploads == {r \in ZipUploads : ext[r].zs = "ended"}

PathEndsIn(p, suffix) == EndsWith(ToLowerCase(p), suffix)

HtmlPath(p) == PathEndsIn(p, ".html") \/ PathEndsIn(p, ".htm")

JarPath(p) == PathEndsIn(p, ".jar")

HtmlPaths(entries) == SelectSeq(entries, HtmlPath)

BundleKind(entries) ==
  IF \E i \in 1..Len(entries) : HtmlPath(entries[i]) THEN "html"
  ELSE IF \E i \in 1..Len(entries) : JarPath(entries[i]) THEN "java-archive"
  ELSE "unsupported"

\* what the extraction made of the archive
ReportedKind(r) ==
  IF ~ext[r].result.ok THEN "unsupported"
  ELSE IF ext[r].result.type = "jar" THEN "java-archive"
  ELSE ext[r].result.type

\* C4: the bundle kind of an extracted ZIP is html if an entry path ends in
\* .html or .htm (case-insensitive), else java-archive if one ends in .jar,
\* else unsupported; an unsupported bundle is rejected and no record is
\* persisted for it.
C4_BundleKind ==
  \A r \in EndedUploads :
    /\ ReportedKind(r) = BundleKind(req[r].file.entries)
    /\ BundleKind(req[r].file.entries) = "unsupported" =>
         /\ Finished(r) /\ req[r].status = 400
         /\ req[r].created = 0
         /\ \A id \in DOMAIN gameFiles :
              ~Under(req[r].extractDir, gameFiles[id].filePath)

\* an archive with entries, none of them HTML or a Java archive, was read to
\* its end and rejected
C4_Witness ==
  \E r \in EndedUploads :
    /\ Len(req[r].file.entries) = MaxEntries
    /\ BundleKind(req[r].file.entries) = "unsupported"
    /\ ext[r].settled = "rejected" /\ ext[r].timer = "armed"
    /\ req[r].status = 400

Keywords ==
  <<"index", "main", "game", "client", "eaglercraft", "launcher", "start", "play">>

AtRoot(p) == SlashAt(p) = {}

FileNameOf(p) == ToLowerCase(LastSegment(p))

NamedStep(k, p) == AtRoot(p) /\ FileNameOf(p) \in {k \o ".html", k \o ".htm"}

ContainsStep(k, p) == Includes(FileNameOf(p), k)

StepTest(step, k, p) == IF step = 1 THEN NamedStep(k, p) ELSE ContainsStep(k, p)

\* the first path passing the step's test for the earliest keyword that any
\* path passes it for, "" when there is none
RECURSIVE EarliestKeyword(_, _, _)
EarliestKeyword(paths, step, i) ==
  IF i > Len(Keywords) THEN ""
  ELSE LET hits == {j \in 1..Len(paths) : StepTest(step, Keywords[i], paths[j])}
       IN  IF hits # {} THEN paths[CHOOSE j \in hits : \A h \in hits : j <= h]
           ELSE EarliestKeyword(paths, step, i + 1)

FirstRootOrFirst(paths) ==
  LET roots == {j \in 1..Len(paths) : AtRoot(paths[j])}
  IN  IF roots # {} THEN paths[CHOOSE j \in roots : \A h \in roots : j <= h]
      ELSE paths[1]

FourStepPriority(paths) ==
  LET s1 == EarliestKeyword(paths, 1, 1)
      s2 == EarliestKeyword(paths, 2, 1)
  IN  IF s1 # "" THEN s1 ELSE IF s2 # "" THEN s2 ELSE FirstRootOrFirst(paths)

\* C5: for an html bundle the selected main entry is the result of the
\* four-step priority: root-level K.html or K.htm for the earliest of the
\* eight keywords, else a filename at any depth (.html or .htm) containing
\* the earliest of the same eight keywords, else the first root-level HTML
\* path, else the first HTML path.
C5_FourStepPriority ==
  \A r \in EndedUploads :
    ext[r].result.type = "html" =>
      ext[r].result.mainHtml = FourStepPriority(HtmlPaths(req[r].file.entries))

IndexNamed(p) == ToLowerCase(p) \in {"index.html", "index.htm"}

NoKeyword(paths) ==
  \A j \in 1..Len(paths) : \A i \in 1..Len(Keywords) :
    ~ContainsStep(Keywords[i], paths[j])

\* C7: when no HTML entry matches a priority keyword the first root-level
\* HTML entry, else the first HTML entry, is selected and the detection
\* method is fallback; the method is pattern-match only when the entry was
\* chosen by a name or keyword match.
C7_FallbackReported ==
  \A r \in EndedUploads :
    LET paths == HtmlPaths(req[r].file.entries)
    IN  ext[r].result.type = "html" =>
          /\ NoKeyword(paths) =>
               /\ ext[r].result.mainHtml = FirstRootOrFirst(paths)
               /\ ext[r].result.detectionMethod = "fallback"
          /\ ext[r].result.detectionMethod = "pattern-match" =>
               \E i \in 1..Len(Keywords) :
                 ContainsStep(Keywords[i], ext[r].result.mainHtml)

(***************************************************************************)
(* Properties of records and their artifacts.                              *)
(***************************************************************************)
Uploads == {r \in Reqs : req[r].kind = "upload"}

Persisted(r) == Finished(r) /\ req[r].status = 200

\* C8: each upload request creates at most one record: exactly one when the
\* ingestion is persisted, none when the upload is rejected at an earlier
\* stage. (Every record ever created took one serial id.)
C8_OneRecordPerUpload ==
  /\ \A r \in Uploads : req[r].created = IF Persisted(r) THEN 1 ELSE 0
  /\ currentFileId - 1 = Cardinality({r \in Uploads : Persisted(r)})

\* an upload was persisted and its one record is in the table
C8_Witness ==
  \E r \in Uploads :
    /\ Persisted(r) /\ req[r].created = 1
    /\ currentFileId = 2
    /\ \E id \in DOMAIN gameFiles : gameFiles[id].filePath = req[r].finalFilePath

\* a delete of record id is in progress
DeleteInProgress(id) ==
  \E r \in Reqs :
    \/ req[r].kind = "delete" /\ ~Finished(r) /\ req[r].target = id
    \/ req[r].kind = "clear" /\ ~Finished(r)

\* C9: in every state in which no delete of a record is in progress, the
\* record's storage path exists on disk, whatever the uploads, single
\* deletes and clear-alls before, and whether the persistence layer's delete
\* succeeded, returned false or threw.
C9_RecordHasArtifact ==
  \A id \in DOMAIN gameFiles :
    ~DeleteInProgress(id) => Exists(gameFiles[id].filePath)

Deletes == {r \in Reqs : req[r].kind = "delete"}

\* C10: the delete operation removes the record only after the removal of
\* its artifact completed without throwing; when the removal throws, the
\* request fails and the record is still present.
C10_RecordRemovedAfterArtifact ==
  [][\A r \in Deletes :
       /\ (req[r].target \in DOMAIN gameFiles /\ req[r].target \notin DOMAIN gameFiles'
           /\ req[r].pc = "deleting" /\ req'[r].pc = "done")
            => req[r].fsRes \in {"removed", "absent"}
       /\ (req[r].fsRes # "threw" /\ req'[r].fsRes = "threw")
            => /\ req'[r].pc = "done" /\ req'[r].status = 500
               /\ gameFiles' = gameFiles
               /\ \/ req[r].target \in DOMAIN gameFiles
                  \/ \E o \in Reqs \ {r} : req[r].target \in req[o].removed
       /\ req[r].fsRes = "threw"
            => /\ req'[r] = req[r]
               /\ req[r].removed = {}
    ]_vars

\* the removal of a record's artifact threw: the delete answered 500 and
\* the record and its artifact are still there
C10_Witness ==
  \E r \in Deletes :
    /\ req[r].fsRes = "threw" /\ Finished(r) /\ req[r].status = 500
    /\ req[r].target \in DOMAIN gameFiles
    /\ Exists(gameFiles[req[r].target].filePath)

\* a delete of record id that has been answered 200
DeletedBy(id) ==
  {r \in Deletes : req[r].target = id /\ Finished(r) /\ req[r].status = 200}

\* C11: deleting the same record twice in sequence is safe: the first delete
\* removes the artifact and the record; the second, arriving after it, finds
\* no record, answers 404 and changes neither the disk nor the records.
C11_DeleteTwice ==
  [][\A r \in Reqs :
       \* the first delete: its removal step leaves no artifact, its final
       \* step no record
       /\ (req[r].kind = "delete" /\ req[r].pc = "getting" /\ req'[r].pc = "deleting")
            => ~(req[r].todo[1].filePath \in fsFiles' \cup fsDirs')
       /\ (req[r].kind = "delete" /\ req[r].pc = "deleting" /\ req'[r].status = 200)
            => req[r].target \notin DOMAIN gameFiles'
       \* the second delete arrives
       /\ (req[r].kind = "free" /\ req'[r].kind = "delete"
           /\ DeletedBy(req'[r].target) # {})
            => req'[r].todo = <<NoRecord>>
       \* and is answered
       /\ (req[r].kind = "delete" /\ req[r].pc = "getting"
           /\ req[r].todo = <<NoRecord>> /\ req'[r] # req[r])
            => /\ req'[r].pc = "done" /\ req'[r].status = 404
               /\ UNCHANGED <<fsFiles, fsDirs, gameFiles>>
    ]_vars

\* a record was deleted (200) and a later delete of it was answered 404
C11_Witness ==
  \E r1 \in Deletes : \E r2 \in Deletes :
    /\ r1 < r2 /\ req[r1].target = req[r2].target
    /\ r1 \in DeletedBy(req[r1].target)
    /\ req[r1].fsRes = "removed"
    /\ Finished(r2) /\ req[r2].status = 404

(***************************************************************************)
(* Properties of the extraction.                                           *)
(***************************************************************************)
\* the entry name would leave the directory it is joined to
LeavesRoot(raw) == ~Under("root", PathJoin("root", EntryFileName(raw)))

InProgress == {r \in ZipUploads : ~Finished(r)}

\* C13: two uploads in progress at the same time never have the same
\* extraction directory, so their writes never go to the same path.
C13_DistinctExtractDirs ==
  \A r1 \in InProgress : \A r2 \in InProgress \ {r1} :
    /\ req[r1].extractDir # req[r2].extractDir
    /\ ext[r1].written \cap ext[r2].written = {}

\* where a directory marker's name points, without its final separator
MarkerTarget(r, i) ==
  LET name == EntryFileName(req[r].file.entries[i])
  IN  PathJoin(req[r].extractDir, SubSeq(name, 1, Len(name) - 1))

\* C14: within one upload's extraction at most one entry is being copied at
\* any time: the next entry is requested only after the previous entry's
\* write stream has closed, or after a directory marker, which is skipped
\* without creating a file.
C14_OneCopyAtATime ==
  \A r \in ZipUploads :
    /\ Cardinality(ext[r].open) <= 1
    /\ ext[r].requested => ext[r].open = {}
    /\ \A i \in 1..ext[r].idx :
         IsDirEntry(EntryFileName(req[r].file.entries[i]))
           => /\ MarkerTarget(r, i) \notin fsFiles
              /\ (MarkerTarget(r, i) \o "/") \notin fsFiles

\* a directory marker was skipped, the entry after it is being copied, and
\* nothing else is
C14_Witness ==
  \E r \in ZipUploads :
    /\ ext[r].idx = 2
    /\ IsDirEntry(req[r].file.entries[1])
    /\ Cardinality(ext[r].open) = 1 /\ ext[r].written = ext[r].open
    /\ ~ext[r].requested

\* C15: every ZIP upload request eventually finishes as persisted or failed;
\* when the timer fires before the extraction has completed (an entry's
\* write never closes, say) the extraction fails with the timeout error and
\* the request is rejected instead of staying pending.
C15_UploadFinishes ==
  /\ \A r \in Reqs : (r \in ZipUploads) ~> (Finished(r) /\ req[r].status \in {200, 400, 500})
  /\ [][\A r \in ZipUploads :
          (ext[r].timer = "armed" /\ ext'[r].timer = "fired")
            => /\ ext'[r].settled = "rejected" /\ ext'[r].error = ErrTimeout
               /\ req'[r].pc = "done" /\ req'[r].status = 400]_vars

\* the timer fired while an entry's write stream was still open, and the
\* request was rejected
C15_Witness ==
  \E r \in ZipUploads :
    /\ ext[r].open # {} /\ ext[r].timer = "fired"
    /\ ext[r].error = ErrTimeout
    /\ Finished(r) /\ req[r].status = 400

\* the ZIP uploads whose extraction resolved
ResolvedUploads == {r \in EndedUploads : ext[r].settled = "resolved"}

\* C16: an archive with at least one .jar entry and no HTML entry is
\* classified java-archive, and the storage path of its persisted record is
\* the extraction directory, a directory and not a file.
C16_JarBundleStoredAsDirectory ==
  \A r \in ResolvedUploads :
    BundleKind(req[r].file.entries) = "java-archive" =>
      /\ ReportedKind(r) = "java-archive"
      /\ req[r].finalFilePath = req[r].extractDir
      /\ Persisted(r) =>
           /\ DOMAIN gameFiles # {}
           /\ \A id \in DOMAIN gameFiles :
                /\ gameFiles[id].filePath = req[r].extractDir
                /\ gameFiles[id].filePath \in fsDirs \ fsFiles

\* an archive of a Java archive and another file, without HTML, was persisted
C16_Witness ==
  \E r \in ResolvedUploads :
    /\ Len(req[r].file.entries) = MaxEntries
    /\ \E i \in 1..Len(req[r].file.entries) : JarPath(req[r].file.entries[i])
    /\ BundleKind(req[r].file.entries) = "java-archive"
    /\ Persisted(r)
    /\ \E id \in DOMAIN gameFiles : gameFiles[id].filePath = req[r].extractDir

\* C17: for a java-archive bundle the HTML-content analysis is skipped and
\* the compatibility fields of the persisted record are all empty: no client
\* version, no engine version, no client family and an empty warnings list.
C17_JarRecordFieldsEmpty ==
  \A r \in ResolvedUploads :
    (BundleKind(req[r].file.entries) = "java-archive" /\ Persisted(r)) =>
      \A id \in DOMAIN gameFiles :
        /\ gameFiles[id].clientVersion = ""
        /\ gameFiles[id].minecraftVersion = ""
        /\ gameFiles[id].clientType = ""
        /\ gameFiles[id].compatibilityWarnings = << >>

\* the record of a java-archive bundle carries the analyzer's failure warning
C17_Witness ==
  \E r \in ResolvedUploads :
    /\ BundleKind(req[r].file.entries) = "java-archive" /\ Persisted(r)
    /\ \E id \in DOMAIN gameFiles :
         /\ gameFiles[id].filePath = req[r].extractDir
         /\ gameFiles[id].compatibilityWarnings = <<WarnNoAnalysis>>

(***************************************************************************)
(* Properties of the analysis step of an upload.                           *)
(***************************************************************************)
\* the uploads whose analysis has returned and whose insert is next
AnalysedUploads == {r \in Uploads : req[r].pc = "creating"}

\* reading the selected file fails: it is a directory, or the read fails
CannotRead(r) == req[r].finalFilePath \notin fsFiles \ Unreadable(req[r])

\* the selected file is not UTF-8 text
CannotDecode(r) ==
  \E i \in 1..Len(req[r].file.bytes) : req[r].file.bytes[i] = InvalidByte

\* the analysis step of r is taken with the selected path on disk
AnalysisStep(r) ==
  /\ req[r].kind = "upload" /\ req[r].pc = "detecting" /\ req'[r].pc # "detecting"
  /\ req[r].finalFilePath \in fsFiles \cup fsDirs

RejectedUploads ==
  {r \in ZipUploads : Finished(r) /\ req[r].status = 400 /\ ext[r].settled = "rejected"}

\* why the extraction of r was rejected: the timer, or else the error of the
\* event that rejected it (an archive the timer rejected keeps being read,
\* and what it reports afterwards has no effect)
Cause(r) ==
  IF ext[r].timer = "fired" THEN "timeout"
  ELSE IF ext[r].error = ErrConfigOnly THEN "config-only"
  ELSE IF ext[r].error = ErrNoSupported THEN "nothing-usable"
  ELSE "corrupt"

\* C19: the message returned to the uploader for a failed ZIP ingestion
\* identifies the cause: a timeout, a corrupt or unopenable archive, an
\* archive of configuration files only and an archive of nothing usable are
\* answered with different messages.
C19_MessageIdentifiesCause ==
  \A r1 \in RejectedUploads : \A r2 \in RejectedUploads :
    Cause(r1) # Cause(r2) => req[r1].message # req[r2].message

\* an archive of configuration files and an archive that cannot be opened
\* were both rejected, with the same message
C19_Witness ==
  \E r1 \in RejectedUploads : \E r2 \in RejectedUploads :
    /\ Cause(r1) = "config-only" /\ Cause(r2) = "corrupt"
    /\ ~req[r2].file.openable
    /\ req[r1].message = MsgZipFailed /\ req[r2].message = MsgZipFailed

\* the archive of r has no entry other than directory markers
NoFileEntries(r) ==
  \A i \in 1..Len(req[r].file.entries) : IsDirEntry(EntryFileName(req[r].file.entries[i]))

\* the errors of an archive that has files, none of them supported
UnsupportedErrors == {ErrNoSupported, ErrConfigOnly}

\* C20: an archive with zero non-directory entries (empty, or directory
\* markers only) fails with an error of its own, which differs from the
\* error given to an archive that has files but none supported.
C20_EmptyArchiveError ==
  \A r \in EndedUploads :
    NoFileEntries(r) =>
      /\ ~ext[r].result.ok
      /\ ext[r].result.error \notin UnsupportedErrors

\* an archive of directory markers only was rejected as holding no
\* supported files
C20_Witness ==
  \E r \in EndedUploads :
    /\ NoFileEntries(r) /\ Len(req[r].file.entries) = MaxEntries
    /\ ext[r].settled = "rejected" /\ ext[r].timer = "armed"
    /\ ext[r].result.error = ErrNoSupported
    /\ Finished(r) /\ req[r].status = 400

(***************************************************************************)
(* Properties of validateZipFile.                                          *)
(***************************************************************************)
\* the calls of validateZipFile that have returned
Validated == {r \in Reqs : req[r].kind = "validate" /\ req[r].pc = "done"}

\* the ceiling of the transport layer, routes.ts:23
TransportLimit == 80 * MB

\* C21: validateZipFile returns isValid = FALSE with at least one error
\* exactly when the file is smaller than 100 bytes, or larger than the
\* maximum upload size of 80 MB, or its first four bytes are not a ZIP
\* signature, or it cannot be read; otherwise it returns isValid = TRUE with
\* no error, so a warning alone never makes the result invalid.
C21_ValidIffWithinLimits ==
  \A r \in Validated :
    LET f == req[r].file
        bad == \/ f.size < 100
               \/ f.size > TransportLimit
               \/ f.sig \notin validSignatures
               \/ ~f.readable
    IN  IF bad
        THEN ~req[r].val.isValid /\ Len(req[r].val.errors) >= 1
        ELSE req[r].val.isValid /\ req[r].val.errors = << >>

\* a readable file with a ZIP signature, larger than 50 MB and within the
\* transport layer's 80 MB, was found invalid
C21_Witness ==
  \E r \in Validated :
    /\ req[r].file.readable /\ req[r].file.sig \in validSignatures
    /\ req[r].file.size > 50 * MB /\ req[r].file.size <= TransportLimit
    /\ ~req[r].val.isValid

(***************************************************************************)
(* Properties of the analyzer's warnings, on the uploads whose selected    *)
(* file was read.                                                          *)
(***************************************************************************)
ReadUploads == {r \in AnalysedUploads : ~CannotRead(r)}

TextOf(r) == Utf8Decode(req[r].file.bytes)

WarningsOf(r) ==
  {req[r].det.compatibilityWarnings[i] : i \in 1..Len(req[r].det.compatibilityWarnings)}

\* the trigger of each warning rule, as the claim names it
Trigger(w, r) ==
  LET text == TextOf(r)
      label == ToLowerCase(req[r].det.clientType)
  IN  CASE w = Warn.graphics -> Includes(text, "WebGL")
        [] w = Warn.storage -> Includes(text, "localStorage") \/ Includes(text, "sessionStorage")
        [] w = Warn.media -> Includes(text, "navigator.mediaDevices") \/ Includes(text, "getUserMedia")
        [] w = Warn.fullscreen -> Includes(text, "fullscreen") \/ Includes(text, "requestFullscreen")
        [] w = Warn.beta -> Includes(label, "beta")
        [] w = Warn.alpha -> Includes(label, "alpha")
        [] OTHER -> ScriptTags(text, 1) > 10

IndependentWarnings ==
  {Warn.graphics, Warn.storage, Warn.media, Warn.fullscreen, Warn.beta, Warn.alpha, Warn.large}

\* C22: the warning rules are independent and additive: each warning is in
\* the output exactly when its own trigger holds, whatever else the text
\* contains: a WebGL reference gives the graphics warning, a browser storage
\* reference the persistence warning, a media capture reference the
\* permissions warning, a fullscreen reference the usage hint, a beta or
\* alpha family label the stability warning, more than 10 script tags the
\* large-client warning.
C22_WarningsIndependent ==
  \A r \in ReadUploads : \A w \in IndependentWarnings :
    w \in WarningsOf(r) <=> Trigger(w, r)

\* a text that refers to WebGL, and to webgl2 as well, got no graphics warning
C22_Witness ==
  \E r \in ReadUploads :
    /\ Includes(TextOf(r), "WebGL") /\ Includes(TextOf(r), "webgl2")
    /\ Warn.graphics \notin WarningsOf(r)

\* the components of a dotted version: the number before the first dot and
\* the number after it (0 when there is none)
VersionMajor(v) == ToNat(SubSeq(v, 1, RunEnd(v, 1, DigitChars) - 1))

VersionMinor(v) ==
  LET d == RunEnd(v, 1, DigitChars)
  IN  IF At(v, d) = "." THEN ToNat(SubSeq(v, d + 1, RunEnd(v, d + 1, DigitChars) - 1)) ELSE 0

\* older than 1.5 in dotted version order
OlderThanOneFive(v) ==
  VersionMajor(v) < 1 \/ (VersionMajor(v) = 1 /\ VersionMinor(v) < 5)

\* C27: the legacy-compatibility warning is emitted exactly when the detected
\* engine version is older than 1.5 in dotted version order (major, then
\* minor, compared as integers): 1.4 and 1.2.5 trigger it; 1.5.2, 1.8.8, 1.10
\* and 1.12.2 do not.
C27_LegacyWarningDottedOrder ==
  \A r \in ReadUploads :
    Warn.legacy \in WarningsOf(r)
      <=> /\ req[r].det.minecraftVersion # ""
          /\ OlderThanOneFive(req[r].det.minecraftVersion)

\* engine version 1.12.2 was detected and got the legacy warning
C27_Witness ==
  \E r \in ReadUploads :
    /\ req[r].det.minecraftVersion = "1.12.2"
    /\ Warn.legacy \in WarningsOf(r)
(***************************************************************************)
(* Properties of the content and the per-file download endpoints.          *)
(***************************************************************************)
JavaArchive == "application/java-archive"

\* the request r sends its response in this step
FinishesNow(r) == req[r].pc # "done" /\ req'[r].pc = "done"

\* the record the request r is about
RowOf(r) == getGameFile(gameFiles, req'[r].target)

\* the .jar and .json files below the directory dir, at any depth, by their
\* paths relative to dir
ArchiveFiles(dir) ==
  { Relative(dir, p) :
      p \in { x \in fsFiles :
                /\ StartsWith(x, dir \o "/")
                /\ \/ EndsWith(ToLowerCase(x), ".jar")
                   \/ EndsWith(ToLowerCase(x), ".json") } }

\* C23: for a java-archive record stored as a directory, the content
\* endpoint answers with a page that lists exactly the .jar and .json files
\* below that directory, and a download request for the link of any listed
\* file is answered with that file.
C23_ListedLinksServe ==
  [][\A r \in Reqs :
       FinishesNow(r) /\ RowOf(r).contentType = JavaArchive
                      /\ RowOf(r).filePath \in fsDirs =>
         LET dir == RowOf(r).filePath
         IN  /\ req'[r].kind = "content" =>
                  /\ req'[r].status = 200
                  /\ {l.name : l \in req'[r].listing} = ArchiveFiles(dir)
             /\ req'[r].kind = "download" =>
                  \A l \in DownloadPage(dir) :
                    req'[r].segment = l.href =>
                      /\ req'[r].status = 200
                      /\ req'[r].served = PathJoin(dir, l.name)]_vars

\* a listed file below the first level was requested by its link and the
\* answer is "not found"; and a listed file of the first level was served
C23_Witness ==
  /\ \E r \in Reqs :
       /\ req[r].kind = "download" /\ req[r].pc = "done"
       /\ LET row == getGameFile(gameFiles, req[r].target)
          IN  /\ row.contentType = JavaArchive /\ row.filePath \in fsDirs
              /\ \E l \in DownloadPage(row.filePath) :
                   /\ Includes(l.name, "/")
                   /\ req[r].segment = l.href
                   /\ req[r].status = 404

Downloads == {r \in Reqs : req[r].kind = "download"}

\* C24: whatever the record id and the requested name, the download
\* endpoint sends only a regular file that lies inside the directory the
\* record is stored as, and a request it does not serve is answered with an
\* error status and no file content.
C24_ServesOnlyInsideRecordDir ==
  \A r \in Downloads :
    LET row == getGameFile(gameFiles, req[r].target)
    IN  /\ req[r].served # "" =>
             /\ req[r].pc = "done" /\ req[r].status = 200
             /\ row # NoRecord /\ row.filePath \in fsDirs
             /\ req[r].served \in fsFiles
             /\ StartsWith(req[r].served, row.filePath \o "/")
        /\ req[r].pc = "done" /\ req[r].status # 200 =>
             /\ req[r].status \in {400, 403, 404, 500}
             /\ req[r].served = ""

\* a file of the record was served, and a request whose name climbs out of
\* the directory was answered with an error
C24_Witness ==
  /\ \E r \in Downloads : req[r].status = 200 /\ req[r].served # ""
  /\ \E r \in Downloads :
       /\ req[r].pc = "done"
       /\ Includes(req[r].filename, "../")
       /\ getGameFile(gameFiles, req[r].target).filePath \in fsDirs
       /\ req[r].status = 404

\* C28: every record of media type application/java-archive is stored as a
\* directory, whether it came from a bundle or from a loose .jar upload, and
\* the content endpoint answers every request for such a record with its
\* page.
C28_JavaArchiveIsDirectory ==
  /\ \A id \in DOMAIN gameFiles :
       gameFiles[id].contentType = JavaArchive => gameFiles[id].filePath \in fsDirs
  /\ \A r \in Reqs :
       /\ req[r].kind = "content" /\ req[r].pc = "done"
       /\ req[r].todo[1].contentType = JavaArchive
       => req[r].status = 200

\* the content of the record of a loose .jar upload was requested and the
\* answer is a server error
C28_Witness ==
  \E r \in Reqs :
    /\ req[r].kind = "content" /\ req[r].pc = "done"
    /\ req[r].todo[1].contentType = JavaArchive
    /\ req[r].todo[1].originalName = "client.jar"
    /\ req[r].todo[1].filePath \in fsFiles
    /\ req[r].status = 500

(***************************************************************************)
(* Properties of the delete endpoint under bundles.                        *)
(***************************************************************************)
\* the uploads of a bundle that created the record `row`
BundleOf(row) ==
  {u \in ZipUploads : req[u].created = 1 /\ req[u].finalFilePath = row.filePath}

\* C25: when a delete of a record is answered with success, nothing the
\* upload of that record wrote is left on disk: the extraction directory of
\* the bundle, with everything below it, is gone.
C25_DeleteLeavesNothing ==
  [][\A r \in Deletes :
       req[r].pc = "deleting" /\ req'[r].pc = "done" /\ req'[r].status = 200 =>
         \A u \in BundleOf(req[r].todo[1]) :
           \A p \in fsFiles' \cup fsDirs' : ~Under(req[u].extractDir, p)]_vars

\* the record of an html bundle was deleted with success and the bundle's
\* extraction directory is still on disk
C25_Witness ==
  \E r \in Deletes :
    /\ Finished(r) /\ req[r].status = 200 /\ req[r].fsRes = "removed"
    /\ req[r].todo[1].contentType = "text/html"
    /\ \E u \in BundleOf(req[r].todo[1]) : req[u].extractDir \in fsDirs

(***************************************************************************)
(* Properties of the classifier's warnings.                                *)
(***************************************************************************)
WarnNoAssets == "No common asset files detected - game may not function properly"

AssetExtensions == {".js", ".css", ".png", ".jpg", ".gif", ".ico"}

\* the path has one of the asset extensions
HasAssetExtension(p) == \E e \in AssetExtensions : EndsWith(ToLowerCase(p), e)

HasWarning(warnings, w) == \E i \in 1..Len(warnings) : warnings[i] = w

\* C26: the result of a classified bundle carries the "No common asset
\* files detected" warning exactly when no path of the bundle has an asset
\* extension (.js, .css, .png, .jpg, .gif, .ico).
C26_NoAssetsWarning ==
  \A r \in ResolvedUploads :
    HasWarning(ext[r].result.warnings, WarnNoAssets)
      <=> ~\E i \in 1..Len(ext[r].allFiles) : HasAssetExtension(ext[r].allFiles[i])

\* a bundle whose only file beside the page is a .json file was classified
\* and its result has no such warning
C26_Witness ==
  \E r \in ResolvedUploads :
    /\ ext[r].allFiles = <<"index.html", "cfg.json">>
    /\ ~HasWarning(ext[r].result.warnings, WarnNoAssets)

\* the deletes of one record that each read its row before the other
\* removed it
Interleaved(r1, r2) ==
  /\ r1 \in Deletes /\ r2 \in Deletes /\ r1 # r2
  /\ req[r1].target = req[r2].target
  /\ req[r1].todo[1] # NoRecord /\ req[r2].todo[1] # NoRecord

\* C29: when two deletes of one record interleave at their awaits, the
\* artifact is removed once and the record is removed once, no filesystem
\* removal is attempted on a path that is already gone, and the request that
\* finds the record removed by the other is answered "not found" (404), not
\* with a server error.
C29_InterleavedDeletes ==
  [][\A r1 \in Reqs : \A r2 \in Reqs :
       Interleaved(r1, r2) =>
         \* the removal step of r1
         /\ req[r1].pc = "getting" /\ req'[r1].pc = "deleting" =>
              /\ req'[r1].fsRes = "removed" <=> Exists(req[r1].todo[1].filePath)
              /\ req'[r1].fsRes = "removed" => req[r2].fsRes # "removed"
         \* the final step of r1 after r2 was answered with success
         /\ (req[r1].pc = "deleting" /\ req'[r1].pc = "done"
             /\ r2 \in DeletedBy(req[r2].target)) =>
              /\ req'[r1].status = 404
              /\ req'[r1].removed = {}
              /\ gameFiles' = gameFiles]_vars

\* two deletes of one record both read its row; one removed the artifact
\* and was answered 200, the other found nothing to remove on disk and was
\* answered 500
C29_Witness ==
  \E r1 \in Reqs : \E r2 \in Reqs :
    /\ Interleaved(r1, r2)
    /\ r1 \in DeletedBy(req[r1].target) /\ req[r1].fsRes = "removed"
    /\ Finished(r2) /\ req[r2].fsRes = "absent" /\ req[r2].status = 500

(***************************************************************************)
(* Properties of the extraction after the response.                        *)
(***************************************************************************)
\* C30: once the response of an upload request was sent, nothing more is
\* written to disk for that upload and no further entry of its archive is
\* read: not after the extraction timed out, and not after an entry failed
\* to open.
C30_NothingWrittenAfterResponse ==
  [][\A r \in Uploads :
       Finished(r) =>
         /\ ext'[r].idx = ext[r].idx
         /\ ext'[r].written = ext[r].written
         /\ fsFiles' \subseteq fsFiles
         /\ fsDirs' \subseteq fsDirs]_vars

\* the extraction timed out, the request was answered, and the archive is
\* still being read: its next entry is requested
C30_Witness ==
  \E r \in Uploads :
    /\ Finished(r) /\ req[r].status = 400
    /\ ext[r].timer = "fired"
    /\ ext[r].zs = "reading" /\ ext[r].requested
    /\ ext[r].idx < Len(req[r].file.entries)

====
